---- MODULE Spec2Model ----
(***************************************************************************)
(* Offline manager of the Prismer Python SDK (prismer/offline.py):         *)
(* MemoryStorage, the write classifier, the outbox and its flush loop, the *)
(* sync engine and the read cache, as a state machine.                     *)
(*                                                                         *)
(* Atomicity follows asyncio: a coroutine runs without interruption until  *)
(* it awaits the network (or the timer's sleep); awaiting a MemoryStorage  *)
(* method never suspends.  One action is therefore one run of a handler    *)
(* from one suspension point to the next.                                  *)
(***************************************************************************)
EXTENDS Naturals, Integers, Sequences, FiniteSets, TLC

\* ------------------------------------------------------------------ bounds
\* Number of write dispatches explored (client ids minted).
MaxOps == 2
\* Largest outbox_retry_limit explored (OfflineConfig default is 5).
MaxRetryLimit == 2
\* Largest outbox_retry_limit of the runs that follow one operation through
\* all its attempts.
MaxAttempts == 3
\* Coroutines of one kind (flush, sync) scheduled with ensure_future and not
\* yet started.
MaxTasks == 1
\* Largest cursor / event sequence number the modelled server hands out.
MaxCursor == 2
\* Events in one sync page of the modelled server.
MaxPageLen == 2
\* Non-write dispatches explored.
MaxPages == 2
\* Calls of init() explored (each starts a flush timer that destroy() cancels).
MaxInits == 1
\* Storage calls that raise in one run.
MaxFaults == 2
\* Largest created_at of an operation handed to the storage directly.
MaxCreatedAt == 2
\* Largest seq (and timestamp) of a sync event.
MaxSeq == 1
\* Members a conversation may reach before no further event is applied.
MaxMembers == 2
\* Registrations of a callback for an event held at a time.
MaxListeners == 3
\* Largest limit a read or a storage query asks for.
MaxLimit == 2

\* ------------------------------------------------------- program constants
\* flush(): ops = await self.storage.dequeue_ready(10)
FlushBatch == 10
\* Optional[int] sync_seq of a record that no sync event has touched (None).
NoSeq == -1

\* Python None for string-valued optionals.
None == "None"

\* ------------------------------------------------------------ small helpers
Range(s) == {s[i] : i \in 1..Len(s)}

SelectIdx(s, Test(_)) == {i \in 1..Len(s) : Test(s[i])}

Min2(a, b) == IF a <= b THEN a ELSE b

\* s[:n] of Python for n >= 0.
Take(s, n) == SubSeq(s, 1, Min2(n, Len(s)))

\* s[-n:] of Python for n >= 0.  Python reads -0 as 0, so s[-0:] is all of s.
LastN(s, n) ==
    IF n = 0 THEN s
    ELSE IF n >= Len(s) THEN s
    ELSE SubSeq(s, Len(s) - n + 1, Len(s))

\* dict.get(key, default) on a dict modelled as a function over its keys.
Get(d, k, default) == IF k \in DOMAIN d THEN d[k] ELSE default

\* {**d, k: v}
With(d, k, v) == [x \in (DOMAIN d) \cup {k} |-> IF x = k THEN v ELSE d[x]]

EmptyDict == [x \in {} |-> None]

\* A Python value that is None, a dict or a list.
PyNone == [t |-> "none"]
PyDict(d) == [t |-> "dict", d |-> d]
PyList(l) == [t |-> "list", l |-> l]
IsDict(v) == v.t = "dict"
IsList(v) == v.t = "list"
\* Truthiness: a dict is truthy when it has a key, a list when it has an
\* element, None never.
Truthy(v) == (IsDict(v) /\ DOMAIN v.d # {}) \/ (IsList(v) /\ v.l # <<>>)

\* `a or b` for strings (None and "" are falsy) and for timestamps (0 is "").
OrStr(a, b) == IF a # None /\ a # "" THEN a ELSE b
OrTime(a, b) == IF a # 0 THEN a ELSE b

\* ------------------------------------------------------------------- ids
\* str(uuid.uuid4()): the n-th id minted; fresh because n only grows.
ClientId(n) == "cid" \o ToString(n)
LocalId(cid) == "local-" \o cid
IdempotencyKey(cid) == "sdk-" \o cid

\* The ids of a run: those of a backlog of one more operation than a flush
\* pass takes, or those the bounded dispatches mint.
ClientIds == {ClientId(n) : n \in 1..(FlushBatch + 1 + MaxOps)}

\* --------------------------------------------------------------- data types
\* StoredMessage.  type, sender_id, parent_id and metadata are carried along
\* unchanged by every operation modelled here and are left out.
StoredMessage(id, conversation_id, content, status, client_id, created_at, updated_at, sync_seq) ==
    [id |-> id, conversation_id |-> conversation_id, content |-> content,
     status |-> status, client_id |-> client_id, created_at |-> created_at,
     updated_at |-> updated_at, sync_seq |-> sync_seq]

\* StoredConversation.  type, last_message, last_message_at and unread_count
\* are set from the event and read by nothing modelled here; left out.
StoredConversation(id, title, members, metadata, updated_at, sync_seq) ==
    [id |-> id, title |-> title, members |-> members, metadata |-> metadata,
     updated_at |-> updated_at, sync_seq |-> sync_seq]

\* SyncEvent, built from a raw event with the defaults of lines 580-586.
SyncEvent(seq, type, data, conversation_id, at) ==
    [seq |-> seq, type |-> type, data |-> data,
     conversation_id |-> conversation_id, at |-> at]

\* Optional[StoredMessage] of OutboxOperation.local_data.
NoLocal == [id |-> None]

\* OutboxOperation.  query is passed through untouched and left out.
OutboxOperation(id, type, method, path, body, created_at, max_retries, local_data) ==
    [id |-> id, type |-> type, method |-> method, path |-> path,
     body |-> body, status |-> "pending", created_at |-> created_at,
     retries |-> 0, max_retries |-> max_retries,
     idempotency_key |-> IdempotencyKey(id), local_data |-> local_data,
     error |-> None]

\* ------------------------------------------------ MemoryStorage: messages
\* self._messages is a dict: insertion ordered, keyed by id.  It is modelled
\* as the sequence of its values in insertion order.
HasId(s, id) == \E i \in 1..Len(s) : s[i].id = id

IndexOf(s, id) == CHOOSE i \in 1..Len(s) : s[i].id = id

get_message(ms, id) == ms[IndexOf(ms, id)]

\* d[x.id] = x: an existing key keeps its place, a new key goes last.
DictSet(s, x) ==
    IF HasId(s, x.id) THEN [s EXCEPT ![IndexOf(s, x.id)] = x]
    ELSE Append(s, x)

\* d.pop(id, None)
DictPop(s, id) == SelectSeq(s, LAMBDA x : x.id # id)

RECURSIVE put_messages(_, _)
put_messages(ms, list) ==
    IF list = <<>> THEN ms
    ELSE put_messages(DictSet(ms, Head(list)), Tail(list))

delete_message(ms, id) == DictPop(ms, id)

\* list.sort(key=created_at) is stable: the element at place r of the
\* result is the one with r - 1 elements before it, those with a smaller
\* key and those with the same key that came earlier in the list.
SortByCreatedAt(s) ==
    [r \in 1..Len(s) |->
        s[CHOOSE i \in 1..Len(s) :
            r = 1 + Cardinality({j \in 1..Len(s) :
                      \/ s[j].created_at < s[i].created_at
                      \/ s[j].created_at = s[i].created_at /\ j < i})]]

\* A faulty query: the list is cut to its oldest messages.
get_messages_Oldest(ms, conversation_id, limit, before) ==
    LET mine == SelectSeq(ms, LAMBDA m : m.conversation_id = conversation_id)
        sorted == SortByCreatedAt(mine)
        kept == IF before = 0 THEN sorted
                ELSE SelectSeq(sorted, LAMBDA m : m.created_at < before)
    IN  Take(kept, limit)

\* get_messages(conversation_id, limit=, before=).  A timestamp string is
\* modelled as a number that orders the same way, the empty string (and a
\* `before` of None) as 0: `if before:` is false for both.
get_messages(ms, conversation_id, limit, before) ==
    LET mine == SelectSeq(ms, LAMBDA m : m.conversation_id = conversation_id)
        sorted == SortByCreatedAt(mine)
        kept == IF before = 0 THEN sorted
                ELSE SelectSeq(sorted, LAMBDA m : m.created_at < before)
    IN  LastN(kept, limit)

\* ------------------------------------------- MemoryStorage: conversations
get_conversation(cs, id) == cs[IndexOf(cs, id)]

RECURSIVE put_conversations(_, _)
put_conversations(cs, list) ==
    IF list = <<>> THEN cs
    ELSE put_conversations(DictSet(cs, Head(list)), Tail(list))

\* conversations.sort(key=updated_at or "", reverse=True) is stable too:
\* equal keys keep their order.
RECURSIVE InsertByUpdatedDesc(_, _)
InsertByUpdatedDesc(s, x) ==
    IF s = <<>> THEN <<x>>
    ELSE IF Head(s).updated_at >= x.updated_at
         THEN <<Head(s)>> \o InsertByUpdatedDesc(Tail(s), x)
         ELSE <<x>> \o s

RECURSIVE SortByUpdatedDesc(_)
SortByUpdatedDesc(s) ==
    IF s = <<>> THEN <<>>
    ELSE InsertByUpdatedDesc(SortByUpdatedDesc(SubSeq(s, 1, Len(s) - 1)), s[Len(s)])

get_conversations(cs, limit) == Take(SortByUpdatedDesc(cs), limit)

\* -------------------------------------------------- MemoryStorage: outbox
\* A faulty readiness test: the retry count is not looked at.
IsReady_IgnoresRetries(op) == op.status = "pending"

\* A faulty readiness test: an operation that failed once is not retried.
IsReady_OnlyFresh(op) == op.status = "pending" /\ op.retries = 0

enqueue(ob, op) == DictSet(ob, op)

IsReady(op) == op.status = "pending" /\ op.retries < op.max_retries

dequeue_ready(ob, limit) ==
    Take(SortByCreatedAt(SelectSeq(ob, IsReady)), limit)

ack(ob, op_id) == DictPop(ob, op_id)

\* A faulty nack: the retry count is stored, the status is left alone.
nack_KeepsStatus(ob, op_id, error, retries) ==
    IF ~HasId(ob, op_id) THEN ob
    ELSE [ob EXCEPT ![IndexOf(ob, op_id)] = [@ EXCEPT !.retries = retries, !.error = error]]

nack(ob, op_id, error, retries) ==
    IF ~HasId(ob, op_id) THEN ob
    ELSE LET i == IndexOf(ob, op_id)
             op == ob[i]
         IN  [ob EXCEPT ![i] =
                 [op EXCEPT !.retries = retries,
                            !.error = error,
                            !.status = IF retries >= op.max_retries
                                       THEN "failed" ELSE op.status]]

get_pending_count(ob) == Cardinality(SelectIdx(ob, LAMBDA op : op.status = "pending"))

\* ------------------------------------------------- write-operation detection
\* A path is the sequence of its segments: "/api/im/messages/c1" is
\* <<"api", "im", "messages", "c1">>, and a trailing "/" is a last segment "".
\* pattern.search(path) finds the pattern anywhere in the path.

\* re "/api/im/(messages|direct|groups)/" and "/api/im/messages/": the three
\* segments, followed by a "/" (so by one more segment, empty or not).
SearchApiIm(path, names) ==
    \E i \in 1..Len(path) :
        /\ i + 3 <= Len(path)
        /\ path[i] = "api" /\ path[i + 1] = "im" /\ path[i + 2] \in names

\* Segments that begin with "read" among the segments the model uses.
StartsWithRead(seg) == seg \in {"read", "readers"}

\* re "/api/im/conversations/[^/]+/read": no anchor at the end.
SearchConversationRead(path) ==
    \E i \in 1..Len(path) :
        /\ i + 4 <= Len(path)
        /\ path[i] = "api" /\ path[i + 1] = "im"
        /\ path[i + 2] = "conversations"
        /\ path[i + 3] # ""
        /\ StartsWithRead(path[i + 4])

_WRITE_PATTERNS ==
    << [method |-> "POST", pattern |-> "send", op_type |-> "message.send"],
       [method |-> "PATCH", pattern |-> "messages", op_type |-> "message.edit"],
       [method |-> "DELETE", pattern |-> "messages", op_type |-> "message.delete"],
       [method |-> "POST", pattern |-> "read", op_type |-> "conversation.read"] >>

PatternSearch(pattern, path) ==
    CASE pattern = "send" -> SearchApiIm(path, {"messages", "direct", "groups"})
      [] pattern = "messages" -> SearchApiIm(path, {"messages"})
      [] pattern = "read" -> SearchConversationRead(path)

\* A faulty classifier: the last rule that matches wins.
_match_write_op_LastRule(method, path) ==
    LET hits == {i \in 1..Len(_WRITE_PATTERNS) :
                    /\ method = _WRITE_PATTERNS[i].method
                    /\ PatternSearch(_WRITE_PATTERNS[i].pattern, path)}
    IN  IF hits = {} THEN None
        ELSE _WRITE_PATTERNS[CHOOSE i \in hits : \A j \in hits : i >= j].op_type

\* The op type of the first rule that matches, None when none does.
_match_write_op(method, path) ==
    LET hits == {i \in 1..Len(_WRITE_PATTERNS) :
                    /\ method = _WRITE_PATTERNS[i].method
                    /\ PatternSearch(_WRITE_PATTERNS[i].pattern, path)}
    IN  IF hits = {} THEN None
        ELSE _WRITE_PATTERNS[CHOOSE i \in hits : \A j \in hits : i <= j].op_type

\* re.search(r"/(?:messages|direct|groups)/([^/]+)", path): group 1 of the
\* leftmost match, "" when there is none.
ConversationOfPath(path) ==
    LET hits == {i \in 1..Len(path) :
                    /\ i + 1 <= Len(path)
                    /\ path[i] \in {"messages", "direct", "groups"}
                    /\ path[i + 1] # ""}
    IN  IF hits = {} THEN ""
        ELSE path[(CHOOSE i \in hits : \A j \in hits : i <= j) + 1]

\* ------------------------------------------------------------------- state
VARIABLES
    \* MemoryStorage
    messages,           \* _messages: its values, in insertion order
    conversations,      \* _conversations: its values, in insertion order
    contacts,           \* _contacts
    cursor,             \* _cursors.get("global_sync"): a number, or NoSeq for None
    outbox,             \* _outbox: its values, in insertion order
    \* OfflineManager
    outbox_retry_limit, \* config: _outbox_retry_limit
    sync_on_connect,    \* config: _sync_on_connect
    flush_task,         \* _flush_task is not None (the timer task exists)
    flushing,           \* _flushing
    is_online,          \* _is_online
    sync_state,         \* _sync_state
    listeners,          \* _listeners: the (event, callback) pairs registered
    \* the event loop
    ready,              \* coroutines scheduled by ensure_future, oldest first
    flush_run,          \* the flush pass that awaits the network, if any
    sync_run,           \* locals of the sync pass that awaits the network
    read_run,           \* the non-write dispatch that awaits the network
    uuid_next,          \* how many uuid4 ids were minted, plus one
    now,                \* the clock read by time.time() / datetime.now()
    \* what the last step did towards the outside
    emitted,            \* emit() calls, in order
    sent,               \* network requests issued, in order
    returned,           \* what a dispatch call returned or raised
    received,           \* what the network answered (or raised) to the step
    \* history
    attempts,           \* per client id: network requests issued for its op
    cancelled,          \* per client id: of those, awaits cancelled by destroy()
    inits,              \* calls of init() so far
    faults              \* storage calls that raised so far

storage_vars == <<messages, conversations, contacts, cursor, outbox>>
manager_vars == <<outbox_retry_limit, sync_on_connect, flush_task, flushing, is_online, sync_state, listeners>>
loop_vars == <<ready, flush_run, sync_run, read_run, uuid_next, now>>
output_vars == <<emitted, sent, returned, received>>
history_vars == <<attempts, cancelled, inits, faults>>
vars == <<storage_vars, manager_vars, loop_vars, output_vars, history_vars>>

\* No flush pass / sync pass / read is suspended at the network.
NoFlushRun == [origin |-> "none", ops |-> <<>>, op |-> None]
NoSyncRun == [origin |-> "none", cursor |-> NoSeq, total_new |-> 0, total_updated |-> 0, pages |-> 0, news |-> 0]
NoReadRun == [method |-> None, path |-> <<>>]
NoReturn == [kind |-> "none"]
NoAnswer == [kind |-> "none"]
\* The network's answer to a request of flush, sync or a read dispatch.
Answer(to, result) == [kind |-> "response", to |-> to, result |-> result]
Raised(to) == [kind |-> "raise", to |-> to]

FlushTasks == {"flush.write", "flush.online"}
SyncTasks == {"sync.online"}
\* Scheduled coroutines of the given kind.
Scheduled(kind) == Cardinality({i \in 1..Len(ready) : ready[i] \in kind})

\* emit(event, payload): the payload fields the claims read.
Ev(event, id, n) == [event |-> event, id |-> id, n |-> n]

InitCommon ==
    /\ messages = <<>>
    /\ conversations = <<>>
    /\ contacts = <<>>
    /\ cursor = NoSeq
    /\ outbox = <<>>
    /\ flush_task = FALSE
    /\ flushing = FALSE
    /\ is_online = TRUE
    /\ sync_state = "idle"
    /\ listeners = {}
    /\ ready = <<>>
    /\ flush_run = NoFlushRun
    /\ sync_run = NoSyncRun
    /\ read_run = NoReadRun
    /\ uuid_next = 1
    /\ now = 1
    /\ emitted = <<>>
    /\ sent = <<>>
    /\ returned = NoReturn
    /\ received = NoAnswer
    /\ attempts = [c \in ClientIds |-> 0]
    /\ cancelled = [c \in ClientIds |-> 0]
    /\ inits = 0
    /\ faults = 0

\* OfflineManager.__init__ with any OfflineConfig within the bounds.
Init ==
    /\ InitCommon
    /\ outbox_retry_limit \in 0..MaxRetryLimit
    /\ sync_on_connect \in BOOLEAN

\* ------------------------------------------------------------ the network
\* network_request(method, path, json=, params=) is injected.  What it
\* returns or raises is the environment's choice; a response is the dict the
\* code reads with .get().
Ok(data) == [ok |-> TRUE, data |-> data]
Fail(error) == [ok |-> FALSE, error |-> error]

\* An error code is a string; the code only asks whether "TIMEOUT" or
\* "NETWORK" occurs in it.  A code is modelled as the sequence of its words
\* ("NETWORK_ERROR" is <<"NETWORK", "ERROR">>, "" is << >>).
InCode(word, code) == \E i \in 1..Len(code) : code[i] = word

ErrorObjects ==
    { PyDict([code |-> <<"TIMEOUT">>, message |-> "unavailable"]),
      PyDict([code |-> <<"NETWORK", "ERROR">>, message |-> "unavailable"]),
      PyDict([code |-> <<"HTTP", "ERROR">>, message |-> "Request failed"]),
      PyNone }

\* Ids the server assigns to messages.
ServerIds == {"s1", "s2"}

\* data.message of an ok response to a send: with an id, without one, or
\* no message at all (the response of an endpoint that returns none, such
\* as POST /api/im/groups/{id}/members).
ServerMessages ==
    {PyDict([id |-> sid]) : sid \in ServerIds} \cup {PyDict([content |-> "srv"])}

FlushResults ==
    {Ok(PyDict([message |-> m])) : m \in ServerMessages}
        \cup {Ok(PyDict([id |-> "g1"])), Ok(PyNone)}
        \cup {Fail(e) : e \in ErrorObjects}

\* str(exc) of an exception raised by the network call.
ExcMessage == "unavailable"

\* --------------------------------------------------------------- dispatch
\* Requests the application dispatches: method, path, body.
BodyHi == PyDict([content |-> "hi"])
BodyMeta == PyDict([content |-> "hi", metadata |-> PyDict([k |-> "v"])])
BodyEmpty == PyDict(EmptyDict)

Req(method, path, body) == [method |-> method, path |-> path, body |-> body]

WriteRequests ==
    { Req("POST", <<"api", "im", "messages", "c1">>, BodyHi),
      Req("POST", <<"api", "im", "messages", "c1">>, PyNone),
      Req("PATCH", <<"api", "im", "messages", "c1", "s1">>, BodyMeta),
      Req("POST", <<"api", "im", "conversations", "c1", "read">>, PyNone) }

\* `x or {}` for a value that is None or a dict.
OrEmpty(v) == IF Truthy(v) THEN v.d ELSE EmptyDict

\* _dispatch_write, lines 390-394: the idempotency key goes into the
\* metadata of a truthy dict body of a send or an edit.
EnrichedBody(body, op_type, idempotency_key) ==
    IF Truthy(body) /\ op_type \in {"message.send", "message.edit"}
    THEN PyDict(With(body.d, "metadata",
                     PyDict(With(OrEmpty(Get(body.d, "metadata", PyNone)),
                                 "_idempotencyKey", idempotency_key))))
    ELSE body

\* _dispatch_write, lines 397-413: the optimistic message of a send whose
\* body is a dict.
LocalMessage(body, op_type, path, client_id, t) ==
    IF op_type = "message.send" /\ IsDict(body)
    THEN StoredMessage(LocalId(client_id), ConversationOfPath(path),
                       Get(body.d, "content", ""), "pending", client_id, t, 0, NoSeq)
    ELSE NoLocal

\* A faulty result: it carries the placeholder id for the client id.
WriteResult_PlaceholderId(local_message, client_id) ==
    [kind |-> "value", ok |-> TRUE, data |-> PyNone,
     pending |-> TRUE, client_id |-> LocalId(client_id)]

\* The dict _dispatch_write returns.
WriteResult(local_message, client_id) ==
    [kind |-> "value", ok |-> TRUE,
     data |-> IF local_message # NoLocal
              THEN PyDict([conversationId |-> local_message.conversation_id,
                           id |-> local_message.id,
                           status |-> local_message.status])
              ELSE PyNone,
     pending |-> TRUE, client_id |-> client_id]

\* dispatch() of a request the classifier takes for a write: _dispatch_write.
\* It awaits only storage, so it is one step.
DispatchWrite(req) ==
    LET op_type == _match_write_op(req.method, req.path)
        client_id == ClientId(uuid_next)
        local_message == LocalMessage(req.body, op_type, req.path, client_id, now')
        op == OutboxOperation(client_id, op_type, req.method, req.path,
                              EnrichedBody(req.body, op_type, IdempotencyKey(client_id)),
                              now', outbox_retry_limit, local_message)
    IN  /\ op_type # None
        /\ uuid_next <= MaxOps
        /\ is_online => Scheduled(FlushTasks) < MaxTasks
        /\ now' = now + 1
        /\ uuid_next' = uuid_next + 1
        /\ messages' = IF local_message # NoLocal
                       THEN put_messages(messages, <<local_message>>)
                       ELSE messages
        /\ outbox' = enqueue(outbox, op)
        /\ ready' = IF is_online THEN Append(ready, "flush.write") ELSE ready
        /\ emitted' = IF local_message # NoLocal
                      THEN <<Ev("message.local", local_message.id, 0)>>
                      ELSE <<>>
        /\ sent' = <<>>
        /\ returned' = WriteResult(local_message, client_id)
        /\ received' = NoAnswer
        /\ UNCHANGED <<conversations, contacts, cursor, manager_vars,
                       flush_run, sync_run, read_run, history_vars>>

\* ------------------------------------------------------------ outbox flush
\* The request flush() issues for an operation (op.method, op.path, op.body).
FlushRequest(op) ==
    [method |-> op.method, path |-> op.path, body |-> op.body, op_id |-> op.id]

\* flush(), lines 489-494, for the k-th operation of the pass: emit
\* outbox.sending and await the network.  ob is the outbox and ev the
\* events of the step so far.
FlushSend(origin, ops, k, ob, ev) ==
    LET op == get_message(ob, ops[k])
    IN  /\ flushing' = TRUE
        /\ flush_run' = [origin |-> origin, ops |-> ops, op |-> op.id]
        /\ emitted' = Append(ev, Ev("outbox.sending", op.id, 0))
        /\ sent' = <<FlushRequest(op)>>
        /\ attempts' = [attempts EXCEPT ![op.id] = @ + 1]

\* flush(), line 543: the pass is over.
FlushDone(ev) ==
    /\ flushing' = FALSE
    /\ flush_run' = NoFlushRun
    /\ emitted' = ev
    /\ sent' = <<>>
    /\ UNCHANGED attempts

\* A faulty flush(): without the guard of line 483.
FlushCall_Unguarded(origin) ==
    LET ops == dequeue_ready(outbox, FlushBatch)
        ids == [i \in 1..Len(ops) |-> ops[i].id]
    IN  IF ops = <<>> THEN FlushDone(<<>>)
        ELSE FlushSend(origin, ids, 1, outbox, <<>>)

\* flush() from its first line to its first await of the network (or to its
\* end when nothing is ready, or at once when the guard of line 483 holds).
\* origin says who called: the timer loop, or a scheduled coroutine.
FlushCall(origin) ==
    IF flushing \/ ~is_online
    THEN /\ emitted' = <<>>
         /\ sent' = <<>>
         /\ UNCHANGED <<flushing, flush_run, attempts>>
    ELSE LET ops == dequeue_ready(outbox, FlushBatch)
             ids == [i \in 1..Len(ops) |-> ops[i].id]
         IN  IF ops = <<>> THEN FlushDone(<<>>)
             ELSE FlushSend(origin, ids, 1, outbox, <<>>)

\* A coroutine scheduled with asyncio.ensure_future starts.
RunFlushTask ==
    /\ ready # <<>>
    /\ Head(ready) \in FlushTasks
    /\ ready' = Tail(ready)
    /\ FlushCall(Head(ready))
    /\ returned' = NoReturn
    /\ received' = NoAnswer
    /\ UNCHANGED <<storage_vars, listeners, outbox_retry_limit, sync_on_connect, flush_task,
                   is_online, sync_state, sync_run, read_run, uuid_next, now,
                   cancelled, inits, faults>>

\* _flush_loop: the sleep is over and the timer task calls flush().  The
\* loop is sequential: no tick while the timer's own pass is running.  A
\* timer started by init() sleeps first: the cancellation of its
\* predecessor's pass is delivered before its first tick.
FlushTick ==
    /\ flush_task
    /\ flush_run.origin \notin {"timer", "cancelled"}
    /\ FlushCall("timer")
    /\ returned' = NoReturn
    /\ received' = NoAnswer
    /\ UNCHANGED <<storage_vars, listeners, outbox_retry_limit, sync_on_connect, flush_task,
                   is_online, sync_state, ready, sync_run, read_run, uuid_next, now,
                   cancelled, inits, faults>>

\* flush(), lines 496-518: the response is ok.
\* Yields the outbox, the messages and the events emitted.
FlushOk(op, result) ==
    LET server_msg == Get(OrEmpty(Get(result, "data", PyNone)), "message", PyNone)
        local == op.local_data
        replace == op.type = "message.send" /\ local # NoLocal /\ Truthy(server_msg)
        sm == server_msg.d
        confirmed == StoredMessage(Get(sm, "id", local.id),
                                   Get(sm, "conversationId", local.conversation_id),
                                   Get(sm, "content", local.content),
                                   "confirmed", op.id,
                                   Get(sm, "createdAt", local.created_at), 0, NoSeq)
    IN  [ob |-> ack(outbox, op.id),
         ms |-> IF replace
                THEN put_messages(delete_message(messages, local.id), <<confirmed>>)
                ELSE messages,
         ev |-> <<Ev("outbox.confirmed", op.id, 0)>>
                \o IF replace THEN <<Ev("message.confirmed", op.id, 0)>> ELSE <<>>]

\* A faulty failure branch: every error code is retried.
FlushFail_AlwaysRetry(op, result) ==
    LET error == OrEmpty(Get(result, "error", PyNone))
        ob == nack(outbox, op.id, Get(error, "message", "Request failed"), op.retries + 1)
        after == get_message(ob, op.id)
    IN  [ob |-> ob,
         ms |-> messages,
         ev |-> <<Ev("outbox.failed", op.id, after.max_retries - after.retries - 1)>>]

\* A faulty failure branch: an operation that failed for good is removed.
FlushFail_DropsPermanent(op, result) ==
    LET error == OrEmpty(Get(result, "error", PyNone))
        err_code == Get(error, "code", <<>>)
        err_msg == Get(error, "message", "Request failed")
        permanent == ~InCode("TIMEOUT", err_code) /\ ~InCode("NETWORK", err_code)
        ob == IF permanent THEN ack(outbox, op.id)
              ELSE nack(outbox, op.id, err_msg, op.retries + 1)
    IN  [ob |-> ob,
         ms |-> messages,
         ev |-> IF permanent
                THEN <<Ev("outbox.failed", op.id, 0)>>
                     \o IF op.type = "message.send"
                        THEN <<Ev("message.failed", op.id, 0)>> ELSE <<>>
                ELSE <<Ev("outbox.failed", op.id, 0)>>]

\* flush(), lines 519-534: the response is not ok.  The operation read after
\* the nack is the object the storage has just updated (MemoryStorage hands
\* out its own objects), so op.retries is then the new count.
FlushFail(op, result) ==
    LET error == OrEmpty(Get(result, "error", PyNone))
        err_code == Get(error, "code", <<>>)
        err_msg == Get(error, "message", "Request failed")
        permanent == ~InCode("TIMEOUT", err_code) /\ ~InCode("NETWORK", err_code)
        ob == IF permanent THEN nack(outbox, op.id, err_msg, op.max_retries)
              ELSE nack(outbox, op.id, err_msg, op.retries + 1)
        after == get_message(ob, op.id)
    IN  [ob |-> ob,
         ms |-> messages,
         ev |-> IF permanent
                THEN <<Ev("outbox.failed", op.id, 0)>>
                     \o IF op.type = "message.send"
                        THEN <<Ev("message.failed", op.id, 0)>> ELSE <<>>
                ELSE <<Ev("outbox.failed", op.id, after.max_retries - after.retries - 1)>>]

\* flush(), lines 535-541: the attempt raised.
FlushRaise(op) ==
    LET ob == nack(outbox, op.id, ExcMessage, op.retries + 1)
        after == get_message(ob, op.id)
    IN  [ob |-> ob,
         ms |-> messages,
         ev |-> IF after.retries + 1 >= after.max_retries
                THEN <<Ev("outbox.failed", op.id, 0)>>
                     \o IF op.type = "message.send"
                        THEN <<Ev("message.failed", op.id, 0)>> ELSE <<>>
                ELSE <<>>]

\* The rest of the pass after the attempt on its current operation: the
\* next operation of the snapshot, or the end.
FlushAfter(out, answer) ==
    LET k == CHOOSE i \in 1..Len(flush_run.ops) : flush_run.ops[i] = flush_run.op
    IN  /\ outbox' = out.ob
        /\ messages' = out.ms
        /\ IF k < Len(flush_run.ops)
           THEN FlushSend(flush_run.origin, flush_run.ops, k + 1, out.ob, out.ev)
           ELSE FlushDone(out.ev)
        /\ returned' = NoReturn
        /\ received' = answer
        /\ UNCHANGED <<conversations, contacts, cursor, listeners, outbox_retry_limit,
                       sync_on_connect, flush_task, is_online, sync_state, ready,
                       sync_run, read_run, uuid_next, now, cancelled, inits>>

\* A flush pass is suspended at its request and no cancellation is on its
\* way to it.
AwaitsFlushAnswer == flush_run.origin \notin {"none", "cancelled"}

\* The network answers the request of the running pass.
FlushResponse(result) ==
    /\ AwaitsFlushAnswer
    /\ LET op == get_message(outbox, flush_run.op)
       IN  FlushAfter(IF Get(result, "ok", FALSE) THEN FlushOk(op, result)
                      ELSE FlushFail(op, result),
                      Answer("flush", result))
    /\ UNCHANGED faults

\* The network call of the running pass raises.
FlushException ==
    /\ AwaitsFlushAnswer
    /\ FlushAfter(FlushRaise(get_message(outbox, flush_run.op)), Raised("flush"))
    /\ UNCHANGED faults

\* A faulty flush(): the flag is cleared after the loop and not in a finally
\* clause, so an exception that leaves flush() finds it as line 485 set it.
FlushUnwind_NoFinally ==
    /\ flushing' = TRUE
    /\ flush_run' = NoFlushRun

\* An exception, or a cancellation, leaves flush(): the finally clause of
\* lines 542-543 runs on the way out.
FlushUnwind ==
    /\ flushing' = FALSE
    /\ flush_run' = NoFlushRun

\* Who sees an exception that leaves flush(): the application that awaited
\* it.  _flush_loop swallows it (line 467) and a coroutine scheduled with
\* ensure_future keeps it in its task.
FlushRaises(origin) == IF origin = "call" THEN [kind |-> "raise"] ELSE NoReturn

\* The storage calls of the try body of lines 491-534.
StorageCalls == {"ack", "delete_message", "put_messages", "nack"}

\* Lines 501-504: the answer to a send carries the server's message, which
\* replaces the placeholder.
FlushReplaces(op, result) ==
    /\ op.type = "message.send"
    /\ op.local_data # NoLocal
    /\ Truthy(Get(OrEmpty(Get(result, "data", PyNone)), "message", PyNone))

\* flush(), lines 535-541, after a storage call of the try body raised: op
\* is the operation the pass holds, ob, ms and ev what the body had done by
\* then.  nack changes nothing when the operation was acked already, and
\* line 538 then reads the retry count the pass dequeued.
FlushHandler(op, ob, ms, ev) ==
    LET nacked == nack(ob, op.id, ExcMessage, op.retries + 1)
        after == IF HasId(nacked, op.id) THEN get_message(nacked, op.id) ELSE op
    IN  [ob |-> nacked,
         ms |-> ms,
         ev |-> ev \o IF after.retries + 1 >= after.max_retries
                      THEN <<Ev("outbox.failed", op.id, 0)>>
                           \o IF op.type = "message.send"
                              THEN <<Ev("message.failed", op.id, 0)>> ELSE <<>>
                      ELSE <<>>]

\* The network answers the request of the running pass and the given
\* storage call of the try body raises, before it changes the storage.
\* What the body did before that call stays: nothing before ack (497) or
\* nack (524, 530); the ack and outbox.confirmed before delete_message
\* (505); the deleted placeholder as well before put_messages (506).  The
\* exception is caught at line 535.  When the nack of line 537 works
\* (handled), the handler runs and the pass goes on with its next
\* operation; when it raises too, the exception leaves flush() through the
\* finally clause.
FlushStorageRaise(result, call, handled) ==
    /\ AwaitsFlushAnswer
    /\ faults < MaxFaults
    /\ faults' = faults + 1
    /\ LET op == get_message(outbox, flush_run.op)
           ok == Get(result, "ok", FALSE)
           acked == call \in {"delete_message", "put_messages"}
           ob == IF acked THEN ack(outbox, op.id) ELSE outbox
           ms == IF call = "put_messages"
                 THEN delete_message(messages, op.local_data.id)
                 ELSE messages
           ev == IF acked THEN <<Ev("outbox.confirmed", op.id, 0)>> ELSE <<>>
       IN  /\ call = "ack" => ok
           /\ call = "nack" => ~ok
           /\ acked => ok /\ FlushReplaces(op, result)
           /\ IF handled
              THEN FlushAfter(FlushHandler(op, ob, ms, ev), Answer("flush", result))
              ELSE /\ outbox' = ob
                   /\ messages' = ms
                   /\ emitted' = ev
                   /\ FlushUnwind
                   /\ sent' = <<>>
                   /\ returned' = FlushRaises(flush_run.origin)
                   /\ received' = Answer("flush", result)
                   /\ UNCHANGED <<conversations, contacts, cursor, listeners,
                                  outbox_retry_limit, sync_on_connect, flush_task,
                                  is_online, sync_state, ready, sync_run, read_run,
                                  uuid_next, now, attempts, cancelled, inits>>

\* The network call of the running pass raises, and so does the nack of the
\* handler (line 537): the exception leaves flush() through the finally
\* clause with the storage as it was.
FlushHandlerRaise ==
    /\ AwaitsFlushAnswer
    /\ faults < MaxFaults
    /\ faults' = faults + 1
    /\ FlushUnwind
    /\ emitted' = <<>>
    /\ sent' = <<>>
    /\ returned' = FlushRaises(flush_run.origin)
    /\ received' = Raised("flush")
    /\ UNCHANGED <<storage_vars, listeners, outbox_retry_limit, sync_on_connect, flush_task,
                   is_online, sync_state, ready, sync_run, read_run, uuid_next, now,
                   attempts, cancelled, inits>>

\* flush() passes the guard of line 483 and dequeue_ready (line 488) raises:
\* the exception leaves flush() through the finally clause before any
\* request.  origin says who called: the application, the timer loop, or a
\* scheduled coroutine, which is then over.
FlushDequeueRaise(origin) ==
    /\ ~flushing
    /\ is_online
    /\ \/ origin = "call"
       \/ origin = "timer" /\ flush_task
       \/ origin \in FlushTasks /\ ready # <<>> /\ Head(ready) = origin
    /\ faults < MaxFaults
    /\ faults' = faults + 1
    /\ ready' = IF origin \in FlushTasks THEN Tail(ready) ELSE ready
    /\ FlushUnwind
    /\ emitted' = <<>>
    /\ sent' = <<>>
    /\ returned' = FlushRaises(origin)
    /\ received' = NoAnswer
    /\ UNCHANGED <<storage_vars, listeners, outbox_retry_limit, sync_on_connect, flush_task,
                   is_online, sync_state, sync_run, read_run, uuid_next, now,
                   attempts, cancelled, inits>>

\* -------------------------------------------------------------- lifecycle
\* _stop_flush_timer: Task.cancel() on the timer task.  When the task is
\* suspended in the network await of its own flush pass, the awaited request
\* is cancelled at once (its answer will not be processed) and
\* CancelledError is scheduled for the task: until the event loop runs it,
\* _flushing stays set.
StopFlushTimer ==
    IF flush_task /\ flush_run.origin = "timer"
    THEN /\ flush_run' = [flush_run EXCEPT !.origin = "cancelled"]
         /\ UNCHANGED flushing
    ELSE UNCHANGED <<flushing, flush_run>>

\* The event loop runs the cancelled timer task: CancelledError (not an
\* Exception) is raised at the await of line 492, passes the except clause
\* of line 535, and the finally clause of line 542 clears _flushing.  The
\* attempt is neither acked nor nacked.
FlushCancelled ==
    /\ flush_run.origin = "cancelled"
    /\ FlushUnwind
    /\ cancelled' = [cancelled EXCEPT ![flush_run.op] = @ + 1]
    /\ emitted' = <<>>
    /\ sent' = <<>>
    /\ returned' = NoReturn
    /\ received' = NoAnswer
    /\ UNCHANGED <<storage_vars, listeners, outbox_retry_limit, sync_on_connect, flush_task,
                   is_online, sync_state, ready, sync_run, read_run, uuid_next, now,
                   attempts, inits, faults>>

\* init(): storage.init() and _start_flush_timer().
InitCall ==
    /\ inits < MaxInits
    /\ inits' = inits + 1
    /\ StopFlushTimer
    /\ flush_task' = TRUE
    /\ emitted' = <<>>
    /\ sent' = <<>>
    /\ returned' = NoReturn
    /\ received' = NoAnswer
    /\ UNCHANGED <<storage_vars, listeners, outbox_retry_limit, sync_on_connect, is_online,
                   sync_state, ready, sync_run, read_run, uuid_next, now, attempts,
                   cancelled, faults>>

\* destroy(): _stop_flush_timer() and remove_all_listeners().
Destroy ==
    /\ flush_task
    /\ StopFlushTimer
    /\ flush_task' = FALSE
    /\ listeners' = {}
    /\ emitted' = <<>>
    /\ sent' = <<>>
    /\ returned' = NoReturn
    /\ received' = NoAnswer
    /\ UNCHANGED <<storage_vars, outbox_retry_limit, sync_on_connect, is_online,
                   sync_state, ready, sync_run, read_run, uuid_next, now, attempts,
                   cancelled, inits, faults>>

\* ---------------------------------------------------------- network state
\* A faulty set_online: sync_on_connect is not looked at.
OnlineTasks_AlwaysSync == <<"flush.online", "sync.online">>

\* The coroutines set_online(True) schedules.
OnlineTasks == <<"flush.online">> \o IF sync_on_connect THEN <<"sync.online">> ELSE <<>>

\* A faulty set_online: without the early return of line 336, the event is
\* emitted for a value that is already in effect.
set_online_AlwaysEmits(online) ==
    /\ is_online' = online
    /\ emitted' = <<Ev(IF online THEN "network.online" ELSE "network.offline", None, 0)>>
    /\ IF online
       THEN /\ Scheduled(FlushTasks) < MaxTasks
            /\ sync_on_connect => Scheduled(SyncTasks) < MaxTasks
            /\ ready' = ready \o OnlineTasks
       ELSE UNCHANGED ready
    /\ sent' = <<>>
    /\ returned' = NoReturn
    /\ received' = NoAnswer
    /\ UNCHANGED <<storage_vars, listeners, outbox_retry_limit, sync_on_connect, flush_task,
                   flushing, sync_state, flush_run, sync_run, read_run, uuid_next,
                   now, history_vars>>

set_online(online) ==
    /\ IF is_online = online
       THEN /\ emitted' = <<>>
            /\ UNCHANGED <<is_online, ready>>
       ELSE /\ is_online' = online
            /\ emitted' = <<Ev(IF online THEN "network.online" ELSE "network.offline",
                               None, 0)>>
            /\ IF online
               THEN /\ Scheduled(FlushTasks) < MaxTasks
                    /\ sync_on_connect => Scheduled(SyncTasks) < MaxTasks
                    /\ ready' = ready \o OnlineTasks
               ELSE UNCHANGED ready
    /\ sent' = <<>>
    /\ returned' = NoReturn
    /\ received' = NoAnswer
    /\ UNCHANGED <<storage_vars, listeners, outbox_retry_limit, sync_on_connect, flush_task,
                   flushing, sync_state, flush_run, sync_run, read_run, uuid_next,
                   now, history_vars>>

\* ----------------------------------------------------------- sync reducers
\* `x or {}` is OrEmpty, defined with dispatch.  Each reducer takes the
\* stored messages ms and conversations cs and yields both.
Store(ms, cs) == [ms |-> ms, cs |-> cs]

\* lines 605-618
ApplyMessageNew(ms, cs, event) ==
    LET msg == OrEmpty(event.data)
    IN  Store(put_messages(ms, <<StoredMessage(
                  Get(msg, "id", ""),
                  OrStr(Get(msg, "conversationId", None), OrStr(event.conversation_id, "")),
                  Get(msg, "content", ""), "confirmed", None,
                  OrTime(Get(msg, "createdAt", 0), event.at), 0, event.seq)>>),
              cs)

\* lines 620-627
ApplyMessageEdit(ms, cs, event) ==
    LET d == OrEmpty(event.data)
        id == Get(d, "id", "")
    IN  IF HasId(ms, id)
        THEN Store(put_messages(ms, <<[get_message(ms, id) EXCEPT
                       !.content = Get(d, "content", @),
                       !.updated_at = event.at,
                       !.sync_seq = event.seq]>>), cs)
        ELSE Store(ms, cs)

\* lines 629-632
ApplyMessageDelete(ms, cs, event) ==
    LET msg_id == Get(OrEmpty(event.data), "id", None)
    IN  IF OrStr(msg_id, None) # None THEN Store(delete_message(ms, msg_id), cs)
        ELSE Store(ms, cs)

\* lines 634-646
ApplyConversationPut(ms, cs, event) ==
    LET conv == OrEmpty(event.data)
    IN  Store(ms, put_conversations(cs, <<StoredConversation(
                  OrStr(Get(conv, "id", None), OrStr(event.conversation_id, "")),
                  Get(conv, "title", None), Get(conv, "members", PyNone),
                  Get(conv, "metadata", PyNone), event.at, event.seq)>>))

\* lines 648-656
ApplyConversationArchive(ms, cs, event) ==
    LET conv_id == OrStr(Get(OrEmpty(event.data), "id", None),
                         OrStr(event.conversation_id, None))
    IN  IF conv_id # None /\ HasId(cs, conv_id)
        THEN Store(ms, put_conversations(cs, <<[get_conversation(cs, conv_id) EXCEPT
                       !.metadata = PyDict(With(OrEmpty(@), "_archived", TRUE)),
                       !.sync_seq = event.seq,
                       !.updated_at = event.at]>>))
        ELSE Store(ms, cs)

\* The conversation a participant event names (lines 659 and 677).
ParticipantConversation(event) ==
    OrStr(Get(OrEmpty(event.data), "conversationId", None),
          OrStr(event.conversation_id, None))

\* lines 658-674
ApplyParticipantAdd(ms, cs, event) ==
    LET conv_id == ParticipantConversation(event)
        d == OrEmpty(event.data)
    IN  IF conv_id # None /\ HasId(cs, conv_id) /\ IsList(get_conversation(cs, conv_id).members)
        THEN LET existing == get_conversation(cs, conv_id)
                 members == existing.members.l
                 already == \E i \in 1..Len(members) :
                                Get(members[i], "userId", None) = Get(d, "userId", None)
             IN  IF already THEN Store(ms, cs)
                 ELSE Store(ms, put_conversations(cs, <<[existing EXCEPT
                          !.members = PyList(Append(members,
                                          [userId |-> Get(d, "userId", ""),
                                           username |-> Get(d, "username", "")])),
                          !.sync_seq = event.seq,
                          !.updated_at = event.at]>>))
        ELSE Store(ms, cs)

\* lines 676-685
ApplyParticipantRemove(ms, cs, event) ==
    LET conv_id == ParticipantConversation(event)
        user_id == Get(OrEmpty(event.data), "userId", None)
    IN  IF conv_id # None /\ HasId(cs, conv_id) /\ IsList(get_conversation(cs, conv_id).members)
        THEN LET existing == get_conversation(cs, conv_id)
             IN  Store(ms, put_conversations(cs, <<[existing EXCEPT
                          !.members = PyList(SelectSeq(existing.members.l,
                                          LAMBDA m : Get(m, "userId", None) # user_id)),
                          !.sync_seq = event.seq,
                          !.updated_at = event.at]>>))
        ELSE Store(ms, cs)

_apply_sync_event(ms, cs, event) ==
    CASE event.type = "message.new" -> ApplyMessageNew(ms, cs, event)
      [] event.type = "message.edit" -> ApplyMessageEdit(ms, cs, event)
      [] event.type = "message.delete" -> ApplyMessageDelete(ms, cs, event)
      [] event.type \in {"conversation.create", "conversation.update"} ->
            ApplyConversationPut(ms, cs, event)
      [] event.type = "conversation.archive" -> ApplyConversationArchive(ms, cs, event)
      [] event.type = "participant.add" -> ApplyParticipantAdd(ms, cs, event)
      [] event.type = "participant.remove" -> ApplyParticipantRemove(ms, cs, event)
      [] OTHER -> Store(ms, cs)


\* ------------------------------------------------------ the event emitter
\* Callbacks the application registers: two that raise an Exception when
\* called and one that returns.
Callbacks == {"raises1", "raises2", "returns"}
Raises(cb) == cb \in {"raises1", "raises2"}

\* The callbacks registered for the event: self._listeners.get(event).
ListenersOf(ls, event) == {cb \in Callbacks : <<event, cb>> \in ls}

\* The orders in which `for cb in list(listeners)` may visit a set.
Orders(S) ==
    {order \in [1..Cardinality(S) -> S] :
        \A i, j \in 1..Cardinality(S) : i # j => order[i] # order[j]}

\* A faulty emit(): the exception of a callback leaves the loop.
RECURSIVE emit_Propagates(_, _)
emit_Propagates(order, calls) ==
    IF order = <<>> THEN [calls |-> calls, raised |-> FALSE]
    ELSE IF Raises(Head(order))
         THEN [calls |-> Append(calls, Head(order)), raised |-> TRUE]
         ELSE emit_Propagates(Tail(order), Append(calls, Head(order)))

\* emit(event, payload), lines 262-269, visiting the callbacks of the event
\* in the given order: the calls it made so far are calls; an Exception of
\* a callback is swallowed and the loop goes on.
RECURSIVE emit(_, _)
emit(order, calls) ==
    IF order = <<>> THEN [calls |-> calls, raised |-> FALSE]
    ELSE IF Raises(Head(order))
         THEN emit(Tail(order), Append(calls, Head(order)))
         ELSE emit(Tail(order), Append(calls, Head(order)))

\* on(), off() and remove_all_listeners() change the registrations only.
EmitterFrame ==
    /\ emitted' = <<>>
    /\ sent' = <<>>
    /\ returned' = NoReturn
    /\ received' = NoAnswer
    /\ UNCHANGED <<storage_vars, outbox_retry_limit, sync_on_connect, flush_task,
                   flushing, is_online, sync_state, loop_vars, history_vars>>

on(event, callback) ==
    /\ Cardinality(listeners \cup {<<event, callback>>}) <= MaxListeners
    /\ listeners' = listeners \cup {<<event, callback>>}
    /\ EmitterFrame

off(event, callback) ==
    /\ listeners' = listeners \ {<<event, callback>>}
    /\ EmitterFrame

remove_all_listeners ==
    /\ listeners' = {}
    /\ EmitterFrame

\* -------------------------------------------------------- realtime events
\* A faulty handler: the content of the payload is not stored.
RealtimeMessage_NoContent(payload, t) ==
    StoredMessage(Get(payload.d, "id", ""), Get(payload.d, "conversationId", ""),
                  "", "confirmed", None,
                  OrTime(Get(payload.d, "createdAt", 0), t), 0, NoSeq)

\* The message handle_realtime_event stores for a message.new payload, at
\* clock time t: confirmed, without client id or sequence number.
RealtimeMessage(payload, t) ==
    StoredMessage(Get(payload.d, "id", ""), Get(payload.d, "conversationId", ""),
                  Get(payload.d, "content", ""), "confirmed", None,
                  OrTime(Get(payload.d, "createdAt", 0), t), 0, NoSeq)

\* payload.get(...) on a truthy payload that is a list raises AttributeError
\* before anything is stored.
RealtimeRaises(event_type, payload) ==
    event_type = "message.new" /\ IsList(payload) /\ Truthy(payload)

\* handle_realtime_event(event_type, payload): only a message.new with a
\* truthy payload is stored.
handle_realtime_event(event_type, payload) ==
    /\ messages' = IF event_type = "message.new" /\ Truthy(payload) /\ IsDict(payload)
                   THEN put_messages(messages, <<RealtimeMessage(payload, now)>>)
                   ELSE messages
    /\ emitted' = <<>>
    /\ sent' = <<>>
    /\ returned' = IF RealtimeRaises(event_type, payload) THEN [kind |-> "raise"] ELSE NoReturn
    /\ received' = NoAnswer
    /\ UNCHANGED <<conversations, contacts, cursor, outbox, manager_vars, loop_vars,
                   history_vars>>

\* ------------------------------------------------------------------ reads
\* The default limit of a cached read (lines 717 and 724).
ReadLimit == 50

\* re.search(r"/api/im/<name>$", path)
EndsWithApiIm(path, name) ==
    /\ Len(path) >= 3
    /\ SubSeq(path, Len(path) - 2, Len(path)) = <<"api", "im", name>>

\* re.search(r"/api/im/messages/([^/]+)$", path): the last segment, the
\* conversation id, is not empty.
EndsWithMessagesOf(path) ==
    /\ Len(path) >= 4
    /\ SubSeq(path, Len(path) - 3, Len(path) - 1) = <<"api", "im", "messages">>
    /\ path[Len(path)] # ""

_msg_to_dict(m) ==
    [id |-> m.id, conversationId |-> m.conversation_id, content |-> m.content,
     status |-> m.status, createdAt |-> m.created_at, updatedAt |-> m.updated_at]

_conv_to_dict(c) ==
    [id |-> c.id, title |-> c.title, members |-> c.members, updatedAt |-> c.updated_at]

_dict_to_msg(d, fallback_conv_id) ==
    StoredMessage(Get(d, "id", ""),
                  OrStr(Get(d, "conversationId", None), fallback_conv_id),
                  Get(d, "content", ""), "confirmed", None,
                  Get(d, "createdAt", 0), 0, NoSeq)

_dict_to_conv(d, t) ==
    StoredConversation(Get(d, "id", ""), Get(d, "title", None),
                       Get(d, "members", PyNone), Get(d, "metadata", PyNone),
                       OrTime(Get(d, "updatedAt", 0), t), NoSeq)

Map(s, F(_)) == [i \in 1..Len(s) |-> F(s[i])]

\* What a dispatch returns: a dict, or an exception.
Value(result) == With(result, "kind", "value")
Raise == [kind |-> "raise"]
NoCache == [kind |-> "none"]

\* A faulty cache lookup: the contacts list is never served from the store.
_read_from_cache_NoContacts(path) ==
    LET convos == get_conversations(conversations, ReadLimit)
        msgs == IF EndsWithMessagesOf(path)
                THEN get_messages(messages, path[Len(path)], ReadLimit, 0)
                ELSE <<>>
    IN  IF EndsWithApiIm(path, "conversations") /\ convos # <<>>
        THEN Value(Ok(PyList(Map(convos, _conv_to_dict))))
        ELSE IF msgs # <<>>
        THEN Value(Ok(PyList(Map(msgs, _msg_to_dict))))
        ELSE NoCache

\* _read_from_cache(path, query) with no query: the cached answer, or None.
_read_from_cache(path) ==
    LET convos == get_conversations(conversations, ReadLimit)
        msgs == IF EndsWithMessagesOf(path)
                THEN get_messages(messages, path[Len(path)], ReadLimit, 0)
                ELSE <<>>
    IN  IF EndsWithApiIm(path, "conversations") /\ convos # <<>>
        THEN Value(Ok(PyList(Map(convos, _conv_to_dict))))
        ELSE IF msgs # <<>>
        THEN Value(Ok(PyList(Map(msgs, _msg_to_dict))))
        ELSE IF EndsWithApiIm(path, "contacts") /\ contacts # <<>>
        THEN Value(Ok(PyList(contacts)))
        ELSE NoCache

\* _cache_read_result(path, query, result): the storage afterwards.
_cache_read_result(path, result) ==
    LET data == Get(result, "data", PyNone)
        cache == Get(result, "ok", FALSE) /\ Truthy(data) /\ IsList(data)
    IN  [cs |-> IF cache /\ EndsWithApiIm(path, "conversations")
                THEN put_conversations(conversations,
                                       Map(data.l, LAMBDA d : _dict_to_conv(d, now)))
                ELSE conversations,
         ms |-> IF cache /\ EndsWithMessagesOf(path)
                THEN put_messages(messages,
                                  Map(data.l, LAMBDA d : _dict_to_msg(d, path[Len(path)])))
                ELSE messages,
         ct |-> IF cache /\ EndsWithApiIm(path, "contacts") THEN data.l ELSE contacts]

\* _read_from_cache(path, {"limit": str(limit)}) for a message history: the
\* `limit` most recent messages of the conversation, or None.
_read_from_cache_limit(path, limit) ==
    LET msgs == IF EndsWithMessagesOf(path)
                THEN get_messages(messages, path[Len(path)], limit, 0)
                ELSE <<>>
    IN  IF msgs # <<>> THEN Value(Ok(PyList(Map(msgs, _msg_to_dict)))) ELSE NoCache

\* A faulty handler of line 371: the exception is always raised again.
ReadFailure_AlwaysRaises == Raise

\* lines 371-374: the network call of a read raised.
ReadFailure == IF ~is_online THEN Value(Ok(PyList(<<>>))) ELSE Raise

ReadRequests ==
    { Req("GET", <<"api", "im", "conversations">>, PyNone),
      Req("GET", <<"api", "im", "messages", "c1">>, PyNone),
      Req("GET", <<"api", "im", "contacts">>, PyNone),
      Req("GET", <<"api", "im", "me">>, PyNone),
      Req("POST", <<"api", "im", "contacts">>, BodyHi) }

\* What the network answers to a read.
ReadResults ==
    { Ok(PyList(<<[id |-> "s1", content |-> "srv", createdAt |-> 1]>>)),
      Ok(PyList(<<[id |-> "c1", updatedAt |-> 1]>>)),
      Ok(PyDict([id |-> "me"])),
      Ok(PyList(<<>>)),
      Fail(PyNone) }

\* dispatch() of a request that is no write, up to its return from the
\* cache or to its await of the network (lines 355-366).
DispatchRead(req) ==
    LET cached == IF req.method = "GET" THEN _read_from_cache(req.path) ELSE NoCache
    IN  /\ _match_write_op(req.method, req.path) = None
        /\ read_run = NoReadRun
        /\ IF cached # NoCache
           THEN /\ returned' = cached
                /\ sent' = <<>>
                /\ UNCHANGED read_run
           ELSE /\ returned' = NoReturn
                /\ sent' = <<req>>
                /\ read_run' = [method |-> req.method, path |-> req.path]
        /\ emitted' = <<>>
        /\ received' = NoAnswer
        /\ UNCHANGED <<storage_vars, manager_vars, ready, flush_run, sync_run,
                       uuid_next, now, history_vars>>

\* dispatch("GET", path, query={"limit": str(limit)}) for a message history,
\* up to its return from the cache or to its await of the network.
DispatchReadLimit(path, limit) ==
    LET cached == _read_from_cache_limit(path, limit)
    IN  /\ EndsWithMessagesOf(path)
        /\ read_run = NoReadRun
        /\ IF cached # NoCache
           THEN /\ returned' = cached
                /\ sent' = <<>>
                /\ UNCHANGED read_run
           ELSE /\ returned' = NoReturn
                /\ sent' = <<Req("GET", path, PyNone)>>
                /\ read_run' = [method |-> "GET", path |-> path]
        /\ emitted' = <<>>
        /\ received' = NoAnswer
        /\ UNCHANGED <<storage_vars, manager_vars, ready, flush_run, sync_run,
                       uuid_next, now, history_vars>>

\* lines 366-369: the network answers the read.
ReadResponse(result) ==
    LET out == IF read_run.method = "GET" THEN _cache_read_result(read_run.path, result)
               ELSE [cs |-> conversations, ms |-> messages, ct |-> contacts]
    IN  /\ read_run # NoReadRun
        /\ conversations' = out.cs
        /\ messages' = out.ms
        /\ contacts' = out.ct
        /\ read_run' = NoReadRun
        /\ returned' = Value(result)
        /\ received' = Answer("read", result)
        /\ emitted' = <<>>
        /\ sent' = <<>>
        /\ UNCHANGED <<cursor, outbox, manager_vars, ready, flush_run, sync_run,
                       uuid_next, now, history_vars>>

\* lines 370-374: the network call of the read raises.
ReadException ==
    /\ read_run # NoReadRun
    /\ read_run' = NoReadRun
    /\ returned' = ReadFailure
    /\ received' = Raised("read")
    /\ emitted' = <<>>
    /\ sent' = <<>>
    /\ UNCHANGED <<storage_vars, manager_vars, ready, flush_run, sync_run,
                   uuid_next, now, history_vars>>

InitRead ==
    /\ InitCommon
    /\ outbox_retry_limit = MaxRetryLimit
    /\ sync_on_connect = FALSE

NextRead ==
    \/ \E req \in ReadRequests : DispatchRead(req)
    \/ \E result \in ReadResults : ReadResponse(result)
    \/ ReadException
    \/ \E online \in BOOLEAN : set_online(online)
    \/ RunFlushTask

SpecRead == InitRead /\ [][NextRead]_vars

\* -------------------------------------------------------------- sync pull
\* event.type.startswith("conversation."), for the types of the model.
StartsWithConversation(type) ==
    type \in {"conversation.create", "conversation.update", "conversation.archive"}

\* _apply_sync_event raises for the event: event.data is a truthy value
\* that is no dict (`(event.data or {}).get` is an AttributeError), for
\* every type the reducer knows.
ApplyRaises(event) ==
    /\ event.type \in {"message.new", "message.edit", "message.delete",
                       "conversation.create", "conversation.update",
                       "conversation.archive", "participant.add", "participant.remove"}
    /\ IsList(event.data)
    /\ Truthy(event.data)

\* str(exc) of that AttributeError.
ApplyErrorMessage == "'list' object has no attribute 'get'"

\* The outbox after _apply_sync_event(event) on the stored messages ms.  The
\* placeholder of a queued send is one object, held by the store and by the
\* operation (local_data, lines 402-431): the in-place edit of lines 623-625
\* shows in both.  Every other write of the reducers stores a new object.
\* An operation holds the stored object exactly when the two are equal: a
\* message stored later under the same id is confirmed, not pending.
EditAliases(ob, ms, event) ==
    LET id == Get(OrEmpty(event.data), "id", "")
    IN  IF event.type = "message.edit" /\ ~ApplyRaises(event) /\ HasId(ms, id)
        THEN [i \in 1..Len(ob) |->
                 IF ob[i].local_data = get_message(ms, id)
                 THEN [ob[i] EXCEPT !.local_data =
                          get_message(ApplyMessageEdit(ms, <<>>, event).ms, id)]
                 ELSE ob[i]]
        ELSE ob

\* A faulty loop: an event whose application raises is passed over.
RECURSIVE ApplyEvents_SkipsFailed(_, _)
ApplyEvents_SkipsFailed(acc, events) ==
    IF events = <<>> THEN acc
    ELSE LET event == Head(events)
             out == IF ApplyRaises(event) THEN Store(acc.ms, acc.cs)
                    ELSE _apply_sync_event(acc.ms, acc.cs, event)
         IN  ApplyEvents_SkipsFailed(
                 [ms |-> out.ms, cs |-> out.cs,
                  ob |-> IF ApplyRaises(event) THEN acc.ob
                         ELSE EditAliases(acc.ob, acc.ms, event),
                  total_new |-> acc.total_new
                      + IF event.type = "message.new" THEN 1 ELSE 0,
                  total_updated |-> acc.total_updated
                      + IF StartsWithConversation(event.type) THEN 1 ELSE 0,
                  raised |-> FALSE],
                 Tail(events))

\* The loop of lines 579-591 over the events of a page: apply each and count.
\* acc holds the store and the two totals, and whether an event raised: the
\* loop ends there, with the events before it applied.
RECURSIVE ApplyEvents(_, _)
ApplyEvents(acc, events) ==
    IF events = <<>> THEN acc
    ELSE LET event == Head(events)
             out == _apply_sync_event(acc.ms, acc.cs, event)
         IN  IF ApplyRaises(event) THEN [acc EXCEPT !.raised = TRUE]
             ELSE ApplyEvents(
                 [ms |-> out.ms, cs |-> out.cs,
                  ob |-> EditAliases(acc.ob, acc.ms, event),
                  total_new |-> acc.total_new
                      + IF event.type = "message.new" THEN 1 ELSE 0,
                  total_updated |-> acc.total_updated
                      + IF StartsWithConversation(event.type) THEN 1 ELSE 0,
                  raised |-> FALSE],
                 Tail(events))

\* The request of lines 565-567.
SyncRequest(since) == [method |-> "GET", path |-> <<"api", "im", "sync">>, since |-> since]

\* A faulty sync.complete: the two totals are swapped.
SyncComplete_Swapped(total_new, total_updated) ==
    [event |-> "sync.complete", id |-> None, n |-> total_updated, updated |-> total_new]

\* The payloads of sync.complete and sync.error.
SyncComplete(total_new, total_updated) ==
    [event |-> "sync.complete", id |-> None, n |-> total_new, updated |-> total_updated]
SyncError(message) == [event |-> "sync.error", id |-> None, n |-> 0, error |-> message]

\* A faulty end of a failed pass: the error is reported and the state is
\* left as it is.
SyncFailed_StaysSyncing(message) ==
    /\ sync_run' = NoSyncRun
    /\ emitted' = <<SyncError(message)>>
    /\ sent' = <<>>
    /\ UNCHANGED <<sync_state, messages, conversations, cursor>>

\* A faulty end of a failed pass: it is reported as a completed one.
SyncFailed_Completes(message) ==
    /\ sync_state' = "idle"
    /\ sync_run' = NoSyncRun
    /\ emitted' = <<SyncComplete(sync_run.total_new, sync_run.total_updated)>>
    /\ sent' = <<>>
    /\ UNCHANGED <<messages, conversations, cursor>>

\* lines 599-601: the pass ends in error.
SyncFailed(message) ==
    /\ sync_state' = "error"
    /\ sync_run' = NoSyncRun
    /\ emitted' = <<SyncError(message)>>
    /\ sent' = <<>>
    /\ UNCHANGED <<messages, conversations, cursor>>

\* lines 590 and 599-601: applying an event of the page raised.  The events
\* before it are in the store; line 595 was not reached.
SyncAborted(out) ==
    /\ sync_state' = "error"
    /\ sync_run' = NoSyncRun
    /\ emitted' = <<SyncError(ApplyErrorMessage)>>
    /\ sent' = <<>>
    /\ messages' = out.ms
    /\ conversations' = out.cs
    /\ UNCHANGED cursor

\* A faulty sync(): a pass starts from the idle state only.
SyncCall_IdleOnly(origin) ==
    IF sync_state # "idle" \/ ~is_online
    THEN /\ emitted' = <<>>
         /\ sent' = <<>>
         /\ UNCHANGED <<sync_state, sync_run>>
    ELSE LET since == IF cursor = NoSeq THEN 0 ELSE cursor
         IN  /\ sync_state' = "syncing"
             /\ emitted' = <<Ev("sync.start", None, 0)>>
             /\ sync_run' = [NoSyncRun EXCEPT !.origin = origin, !.cursor = since]
             /\ sent' = <<SyncRequest(since)>>

\* A faulty sync(): the guard of line 552 looks at the connectivity only.
SyncCall_Unguarded(origin) ==
    IF ~is_online
    THEN /\ emitted' = <<>>
         /\ sent' = <<>>
         /\ UNCHANGED <<sync_state, sync_run>>
    ELSE LET since == IF cursor = NoSeq THEN 0 ELSE cursor
         IN  /\ sync_state' = "syncing"
             /\ emitted' = <<Ev("sync.start", None, 0)>>
             /\ sync_run' = [NoSyncRun EXCEPT !.origin = origin, !.cursor = since]
             /\ sent' = <<SyncRequest(since)>>

\* sync() from its first line to its first await of the network.
SyncCall(origin) ==
    IF sync_state = "syncing" \/ ~is_online
    THEN /\ emitted' = <<>>
         /\ sent' = <<>>
         /\ UNCHANGED <<sync_state, sync_run>>
    ELSE LET since == IF cursor = NoSeq THEN 0 ELSE cursor
         IN  /\ sync_state' = "syncing"
             /\ emitted' = <<Ev("sync.start", None, 0)>>
             /\ sync_run' = [NoSyncRun EXCEPT !.origin = origin, !.cursor = since]
             /\ sent' = <<SyncRequest(since)>>

\* The application awaits sync() itself.
sync ==
    /\ SyncCall("call")
    /\ returned' = NoReturn
    /\ received' = NoAnswer
    /\ UNCHANGED <<storage_vars, listeners, outbox_retry_limit, sync_on_connect, flush_task,
                   flushing, is_online, ready, flush_run, read_run, uuid_next, now,
                   history_vars>>

\* The sync() that set_online(True) scheduled starts.
RunSyncTask ==
    /\ ready # <<>>
    /\ Head(ready) \in SyncTasks
    /\ ready' = Tail(ready)
    /\ SyncCall(Head(ready))
    /\ returned' = NoReturn
    /\ received' = NoAnswer
    /\ UNCHANGED <<storage_vars, listeners, outbox_retry_limit, sync_on_connect, flush_task,
                   flushing, is_online, flush_run, read_run, uuid_next, now,
                   history_vars>>

\* lines 569-598: the network answers the request of the running pass.
SyncResponse(result) ==
    /\ sync_run.origin # "none"
    /\ IF ~Get(result, "ok", FALSE) \/ ~Truthy(Get(result, "data", PyNone))
       THEN /\ SyncFailed(Get(OrEmpty(Get(result, "error", PyNone)), "message", "Sync failed"))
            /\ UNCHANGED outbox
       ELSE LET data == result.data.d
                events_raw == Get(data, "events", <<>>)
                new_cursor == Get(data, "cursor", sync_run.cursor)
                has_more == Get(data, "hasMore", FALSE)
                out == ApplyEvents([ms |-> messages, cs |-> conversations, ob |-> outbox,
                                    total_new |-> sync_run.total_new,
                                    total_updated |-> sync_run.total_updated,
                                    raised |-> FALSE],
                                   events_raw)
                progress == Ev("sync.progress", None, Len(events_raw))
            IN  /\ outbox' = out.ob
                /\ IF out.raised THEN SyncAborted(out)
                   ELSE
                    /\ has_more => sync_run.pages + 1 < MaxPages
                    /\ messages' = out.ms
                    /\ conversations' = out.cs
                    /\ cursor' = new_cursor
                    /\ IF has_more
                       THEN /\ sync_run' = [sync_run EXCEPT
                                   !.cursor = new_cursor,
                                   !.total_new = out.total_new,
                                   !.total_updated = out.total_updated,
                                   !.pages = @ + 1,
                                   !.news = @ + Cardinality({k \in 1..Len(events_raw) :
                                                   events_raw[k].type = "message.new"})]
                            /\ emitted' = <<progress>>
                            /\ sent' = <<SyncRequest(new_cursor)>>
                            /\ UNCHANGED sync_state
                       ELSE /\ sync_run' = NoSyncRun
                            /\ sync_state' = "idle"
                            /\ emitted' = <<progress, SyncComplete(out.total_new, out.total_updated)>>
                            /\ sent' = <<>>
    /\ returned' = NoReturn
    /\ received' = Answer("sync", result)
    /\ UNCHANGED <<contacts, listeners, outbox_retry_limit, sync_on_connect, flush_task,
                   flushing, is_online, ready, flush_run, read_run, uuid_next, now,
                   history_vars>>

\* The network call of the running pass raises.
SyncException ==
    /\ sync_run.origin # "none"
    /\ SyncFailed(ExcMessage)
    /\ returned' = NoReturn
    /\ received' = Raised("sync")
    /\ UNCHANGED <<contacts, outbox, listeners, outbox_retry_limit, sync_on_connect, flush_task,
                   flushing, is_online, ready, flush_run, read_run, uuid_next, now,
                   history_vars>>

\* The task that awaits the network inside sync() is cancelled by its owner
\* (task.cancel(), asyncio.wait_for).  CancelledError is not an Exception:
\* the handler of line 599 is passed by and nothing resets _sync_state.
SyncCancel ==
    /\ sync_run.origin # "none"
    /\ sync_run' = NoSyncRun
    /\ emitted' = <<>>
    /\ sent' = <<>>
    /\ returned' = [kind |-> "cancelled"]
    /\ received' = NoAnswer
    /\ UNCHANGED <<storage_vars, manager_vars, ready, flush_run, read_run, uuid_next, now,
                   history_vars>>

\* ---------------------------------------------- the reducers on their own
\* event.data for each family of event types: complete, partial and None.
MessageData ==
    { PyDict([id |-> "s1", content |-> "srv"]), PyNone }
ConversationData ==
    { PyDict([id |-> "c1", members |-> PyList(<<>>)]),
      PyDict([id |-> "c1", title |-> "t"]), PyNone }
ParticipantData ==
    { PyDict([conversationId |-> "c1", userId |-> "u1"]),
      PyDict([username |-> "n1"]) }

EventTypes ==
    { "message.new", "message.edit", "message.delete", "conversation.create",
      "conversation.update", "conversation.archive", "participant.add",
      "participant.remove" }

DataFor(type) ==
    CASE type \in {"message.new", "message.edit", "message.delete"} -> MessageData
      [] type \in {"participant.add", "participant.remove"} -> ParticipantData
      [] OTHER -> ConversationData

\* The events of a sync page; the server stamps an event with its seq.
SyncEvents ==
    UNION { { SyncEvent(seq, type, data, conversation_id, seq) :
                seq \in 1..MaxSeq, data \in DataFor(type),
                conversation_id \in {None, "c1"} } : type \in EventTypes }

MembersWithin(cs) ==
    \A i \in 1..Len(cs) : IsList(cs[i].members) => Len(cs[i].members.l) <= MaxMembers

\* _apply_sync_event(event) on the store as it is.
ApplySyncEvent(event) ==
    LET out == _apply_sync_event(messages, conversations, event)
    IN  /\ MembersWithin(out.cs)
        /\ messages' = out.ms
        /\ conversations' = out.cs
        /\ outbox' = EditAliases(outbox, messages, event)
        /\ emitted' = <<>>
        /\ sent' = <<>>
        /\ returned' = NoReturn
        /\ received' = NoAnswer
        /\ UNCHANGED <<contacts, cursor, manager_vars, loop_vars, history_vars>>

InitReducer ==
    /\ InitCommon
    /\ outbox_retry_limit = MaxRetryLimit
    /\ sync_on_connect = FALSE

NextReducer == \E event \in SyncEvents : ApplySyncEvent(event)

SpecReducer == InitReducer /\ [][NextReducer]_vars

\* -------------------------------------------- the sync engine on its own
\* The events the server puts in the pages of a pull.
PageEvents ==
    { SyncEvent(1, "message.new", PyDict([id |-> "s1", content |-> "srv"]), "c1", 1),
      SyncEvent(2, "message.new", PyDict([id |-> "s2", content |-> "srv"]), "c1", 2),
      SyncEvent(2, "message.delete", PyDict([id |-> "s1"]), None, 2),
      SyncEvent(1, "conversation.create", PyDict([id |-> "c1"]), None, 1) }

Pages == UNION {[1..n -> PageEvents] : n \in 0..MaxPageLen}

\* What the network answers to GET /api/im/sync: a page with any cursor
\* (or none) and hasMore flag, an ok answer without data, a failure.
SyncResults ==
    { Ok(PyDict([events |-> p, cursor |-> c, hasMore |-> h])) :
          p \in Pages, c \in 1..MaxCursor, h \in BOOLEAN }
      \cup {Ok(PyDict([events |-> <<>>, hasMore |-> h])) : h \in BOOLEAN}
      \cup {Ok(PyNone), Fail(PyDict([message |-> "Request failed"])), Fail(PyNone)}

InitSync ==
    /\ InitCommon
    /\ outbox_retry_limit = MaxRetryLimit
    /\ sync_on_connect \in BOOLEAN

NextSync ==
    \/ sync
    \/ RunSyncTask
    \/ \E result \in SyncResults : SyncResponse(result)
    \/ SyncException
    \/ \E online \in BOOLEAN : set_online(online)
    \/ RunFlushTask

SpecSync == InitSync /\ [][NextSync]_vars

\* ------------------------------------- pulls with pages that cannot apply
\* The sync engine with a server whose pages carry seqs in any order and
\* events the reducer raises on.
PullEvents ==
    { SyncEvent(1, "message.new", PyDict([id |-> "s1", content |-> "srv"]), "c1", 1),
      SyncEvent(2, "message.new", PyDict([id |-> "s2", content |-> "srv"]), "c1", 2),
      SyncEvent(2, "message.new", PyList(<<"x">>), "c1", 2),
      SyncEvent(1, "conversation.create", PyList(<<"x">>), "c1", 1) }

PullPages == UNION {[1..n -> PullEvents] : n \in 1..MaxPageLen}

PullResults ==
    { Ok(PyDict([events |-> p, cursor |-> c, hasMore |-> h])) :
          p \in PullPages, c \in 1..MaxCursor, h \in BOOLEAN }
      \cup {Fail(PyNone)}

InitPull ==
    /\ InitCommon
    /\ outbox_retry_limit = MaxRetryLimit
    /\ sync_on_connect \in BOOLEAN

NextPull ==
    \/ sync
    \/ RunSyncTask
    \/ \E result \in PullResults : SyncResponse(result)
    \/ SyncException
    \/ \E online \in BOOLEAN : set_online(online)
    \/ RunFlushTask

SpecPull == InitPull /\ [][NextPull]_vars

\* ------------------------------------------------- the queue on its own
\* The application awaits flush() itself.
flush ==
    /\ flush_run.origin # "call"
    /\ FlushCall("call")
    /\ returned' = NoReturn
    /\ received' = NoAnswer
    /\ UNCHANGED <<storage_vars, listeners, outbox_retry_limit, sync_on_connect, flush_task,
                   is_online, sync_state, ready, sync_run, read_run, uuid_next, now,
                   cancelled, inits, faults>>

\* Operations as a caller of the storage may build them: any creation time,
\* retry count and status.
QueueOps(id) ==
    { [OutboxOperation(id, "message.delete", "DELETE",
                       <<"api", "im", "messages", "c1", "s1">>, PyNone, t,
                       outbox_retry_limit, NoLocal)
          EXCEPT !.retries = r, !.status = st] :
        t \in 1..MaxCreatedAt, r \in 0..outbox_retry_limit, st \in {"pending", "failed"} }

\* storage.enqueue(op), called on the storage itself.
Enqueue(op) ==
    /\ uuid_next <= MaxOps + 1
    /\ uuid_next' = uuid_next + 1
    /\ outbox' = enqueue(outbox, op)
    /\ emitted' = <<>>
    /\ sent' = <<>>
    /\ returned' = NoReturn
    /\ received' = NoAnswer
    /\ UNCHANGED <<messages, conversations, contacts, cursor, manager_vars, ready,
                   flush_run, sync_run, read_run, now, history_vars>>

\* storage.dequeue_ready(limit), called on the storage itself.
DequeueReady(limit) ==
    /\ returned' = [kind |-> "dequeue_ready", limit |-> limit,
                    ops |-> dequeue_ready(outbox, limit)]
    /\ emitted' = <<>>
    /\ sent' = <<>>
    /\ received' = NoAnswer
    /\ UNCHANGED <<storage_vars, manager_vars, loop_vars, history_vars>>

InitQueue ==
    /\ InitCommon
    /\ outbox_retry_limit \in 0..MaxRetryLimit
    /\ sync_on_connect = FALSE

NextQueue ==
    \/ \E op \in QueueOps(ClientId(uuid_next)) : Enqueue(op)
    \/ \E limit \in 0..(MaxOps + 1) : DequeueReady(limit)
    \/ flush
    \/ \E result \in FlushResults : FlushResponse(result)
    \/ FlushException

SpecQueue == InitQueue /\ [][NextQueue]_vars

\* ------------------------------------------------- the outbox on its own
\* The manager with sync_on_connect off and no sync() or read dispatched:
\* writes, the flush loop, direct flush() calls, connectivity and the
\* lifecycle.
InitOutbox ==
    /\ InitCommon
    /\ outbox_retry_limit \in 0..MaxRetryLimit
    /\ sync_on_connect = FALSE

NextOutbox ==
    \/ \E req \in WriteRequests : DispatchWrite(req)
    \/ RunFlushTask
    \/ FlushTick
    \/ flush
    \/ \E result \in FlushResults : FlushResponse(result)
    \/ FlushException
    \/ \E online \in BOOLEAN : set_online(online)
    \/ InitCall
    \/ Destroy
    \/ FlushCancelled

SpecOutbox == InitOutbox /\ [][NextOutbox]_vars

\* ------------------------------- the outbox next to sync and realtime events
\* Sends of a message, with the pulls and the realtime events that touch
\* the store while they are queued.
DurableRequests == {Req("POST", <<"api", "im", "messages", "c1">>, BodyHi)}

\* A pull that deletes a message, and a pull that fails.
DurableSyncResults ==
    { Ok(PyDict([events |-> <<SyncEvent(1, "message.delete", PyDict([id |-> "s1"]), None, 1)>>,
                 cursor |-> 1, hasMore |-> FALSE])),
      Fail(PyNone) }

\* Answers to a send: confirmed with a server id, ok without a message,
\* a transient and a permanent failure.
DurableFlushResults ==
    { Ok(PyDict([message |-> PyDict([id |-> "s1"])])),
      Ok(PyNone),
      Fail(PyDict([code |-> <<"TIMEOUT">>, message |-> "unavailable"])),
      Fail(PyDict([code |-> <<"HTTP", "ERROR">>, message |-> "Request failed"])) }

RealtimeEventTypes == {"message.new", "message.edit"}
RealtimePayloads == {PyDict([id |-> "s1", conversationId |-> "c1", createdAt |-> 1]), PyNone}

InitDurable ==
    /\ InitCommon
    /\ outbox_retry_limit = MaxRetryLimit
    /\ sync_on_connect = FALSE

NextDurable ==
    \/ \E req \in DurableRequests : DispatchWrite(req)
    \/ RunFlushTask
    \/ FlushTick
    \/ \E result \in DurableFlushResults : FlushResponse(result)
    \/ FlushException
    \/ \E online \in BOOLEAN : set_online(online)
    \/ InitCall
    \/ Destroy
    \/ FlushCancelled
    \/ sync
    \/ \E result \in DurableSyncResults : SyncResponse(result)
    \/ SyncException
    \/ \E t \in RealtimeEventTypes, payload \in RealtimePayloads :
           handle_realtime_event(t, payload)

SpecDurable == InitDurable /\ [][NextDurable]_vars

\* --------------------------------------------- the flush loop that drains
\* The manager after init(), online for good, with a network that answers
\* every request.  It starts either fresh, or with a backlog of one more
\* operation than a pass takes: the state after set_online(False),
\* FlushBatch + 1 dispatches of a read receipt, init() and set_online(True).
Backlog(n, max_retries) ==
    [i \in 1..n |->
        OutboxOperation(ClientId(i), "conversation.read", "POST",
                        <<"api", "im", "conversations", "c1", "read">>, PyNone,
                        i + 1, max_retries, NoLocal)]

InitLive ==
    /\ messages = <<>>
    /\ conversations = <<>>
    /\ contacts = <<>>
    /\ cursor = NoSeq
    /\ outbox_retry_limit \in 1..MaxRetryLimit
    /\ sync_on_connect = FALSE
    /\ flush_task = TRUE
    /\ flushing = FALSE
    /\ is_online = TRUE
    /\ sync_state = "idle"
    /\ listeners = {}
    /\ flush_run = NoFlushRun
    /\ sync_run = NoSyncRun
    /\ read_run = NoReadRun
    /\ sent = <<>>
    /\ returned = NoReturn
    /\ received = NoAnswer
    /\ attempts = [c \in ClientIds |-> 0]
    /\ cancelled = [c \in ClientIds |-> 0]
    /\ inits = 1
    /\ faults = 0
    /\ \/ /\ outbox = <<>>
          /\ ready = <<>>
          /\ uuid_next = 1
          /\ now = 1
          /\ emitted = <<>>
       \/ /\ outbox_retry_limit = 1
          /\ outbox = Backlog(FlushBatch + 1, outbox_retry_limit)
          /\ ready = <<"flush.online">>
          /\ uuid_next = FlushBatch + 2
          /\ now = FlushBatch + 2
          /\ emitted = <<Ev("network.online", None, 0)>>

\* What the network answers in this run: ok, or a transient failure.
LiveFlushResults ==
    {Ok(PyNone), Fail(PyDict([code |-> <<"TIMEOUT">>, message |-> "unavailable"]))}

\* The network answers the request in flight, or the call raises.
NetworkAnswers ==
    \/ \E result \in LiveFlushResults : FlushResponse(result)
    \/ FlushException

NextLive ==
    \/ \E req \in WriteRequests : DispatchWrite(req)
    \/ RunFlushTask
    \/ FlushTick
    \/ NetworkAnswers

\* The timer loop sleeps and calls flush() for ever, the event loop runs
\* every coroutine it was given, and every request is answered.
SpecLive ==
    /\ InitLive
    /\ [][NextLive]_vars
    /\ WF_vars(FlushTick)
    /\ WF_vars(RunFlushTask)
    /\ WF_vars(NetworkAnswers)

\* ------------------------------------- the manager with listeners attached
\* The events callbacks are registered for: one of each emitting operation
\* (set_online, sync, flush, dispatch).
EmitterEvents == {"network.online", "sync.start", "outbox.sending", "message.local"}

\* What the network answers here: ok to a send, a failed pull.
EmitterFlushResults == {Ok(PyNone)}
EmitterSyncResults == {Fail(PyNone)}

InitEmitter ==
    /\ InitCommon
    /\ outbox_retry_limit = 1
    /\ sync_on_connect = FALSE

NextEmitter ==
    \/ \E event \in EmitterEvents, callback \in Callbacks : on(event, callback)
    \/ \E event \in EmitterEvents, callback \in Callbacks : off(event, callback)
    \/ remove_all_listeners
    \/ \E online \in BOOLEAN : set_online(online)
    \/ DispatchWrite(Req("POST", <<"api", "im", "messages", "c1">>, BodyHi))
    \/ RunFlushTask
    \/ \E result \in EmitterFlushResults : FlushResponse(result)
    \/ sync
    \/ \E result \in EmitterSyncResults : SyncResponse(result)

SpecEmitter == InitEmitter /\ [][NextEmitter]_vars

\* ------------------------------------------- dispatch of any request
\* dispatch(method, path, body): lines 355-357 route the request.
dispatch(req) == DispatchWrite(req) \/ DispatchRead(req)

ClassifyMethods == {"GET", "POST", "PATCH", "DELETE", "PUT"}

\* Paths of the client's endpoints, a messages path without a trailing
\* segment, and a path in which two rules of the table find their pattern.
ClassifyPaths ==
    { <<"api", "im", "messages", "c1">>,
      <<"api", "im", "messages">>,
      <<"api", "im", "direct", "u1", "messages">>,
      <<"api", "im", "groups", "g1", "members">>,
      <<"api", "im", "conversations", "c1", "read">>,
      <<"api", "im", "conversations", "c1">>,
      <<"api", "im", "conversations", "c1", "read", "api", "im", "messages", "c1">>,
      <<"api", "im", "contacts">> }

ClassifyRequests ==
    {Req(method, path, body) :
        method \in ClassifyMethods, path \in ClassifyPaths,
        body \in {BodyHi, BodyMeta, BodyEmpty, PyNone}}

ClassifyReadResults == {Ok(PyList(<<>>)), Fail(PyNone)}

InitClassify ==
    /\ InitCommon
    /\ outbox_retry_limit = 1
    /\ sync_on_connect = FALSE

\* The kick of a write is left waiting: one operation is queued at most.
NextClassify ==
    \/ \E req \in ClassifyRequests : dispatch(req)
    \/ \E result \in ClassifyReadResults : ReadResponse(result)
    \/ ReadException

SpecClassify == InitClassify /\ [][NextClassify]_vars

\* ------------------------------------------------- attempts and failures
\* The manager with a retry limit of up to MaxAttempts, a send and a read
\* receipt, and a network that fails in every way or confirms.
RetryRequests ==
    { Req("POST", <<"api", "im", "messages", "c1">>, BodyHi),
      Req("POST", <<"api", "im", "conversations", "c1", "read">>, PyNone) }

RetryFlushResults ==
    { Ok(PyDict([message |-> PyDict([id |-> "s1"])])),
      Fail(PyDict([code |-> <<"TIMEOUT">>, message |-> "unavailable"])),
      Fail(PyDict([code |-> <<"NETWORK", "ERROR">>, message |-> "unavailable"])),
      Fail(PyDict([code |-> <<"HTTP", "ERROR">>, message |-> "Request failed"])) }

InitRetry ==
    /\ InitCommon
    /\ outbox_retry_limit \in 1..MaxAttempts
    /\ sync_on_connect = FALSE

NextRetry ==
    \/ \E req \in RetryRequests : DispatchWrite(req)
    \/ RunFlushTask
    \/ flush
    \/ \E result \in RetryFlushResults : FlushResponse(result)
    \/ FlushException
    \/ \E online \in BOOLEAN : set_online(online)

SpecRetry == InitRetry /\ [][NextRetry]_vars

\* --------------------------------------------------- reading one's send
\* A caller that sends to c1 and reads c1's history with a limit, while
\* messages of others arrive over the realtime channel, dated before and
\* after its own.
MessagesC1 == <<"api", "im", "messages", "c1">>

OwnSendPayloads ==
    { PyDict([id |-> "s8", conversationId |-> "c1", createdAt |-> 1]),
      PyDict([id |-> "s9", conversationId |-> "c1", createdAt |-> 9]) }

OwnSendFlushResults ==
    { Ok(PyDict([message |-> PyDict([id |-> "s1"])])),
      Fail(PyDict([code |-> <<"TIMEOUT">>, message |-> "unavailable"])) }

InitOwnSend ==
    /\ InitCommon
    /\ outbox_retry_limit = 1
    /\ sync_on_connect = FALSE

NextOwnSend ==
    \/ DispatchWrite(Req("POST", MessagesC1, BodyHi))
    \/ \E payload \in OwnSendPayloads : handle_realtime_event("message.new", payload)
    \/ \E limit \in 1..MaxLimit : DispatchReadLimit(MessagesC1, limit)
    \/ ReadResponse(Ok(PyList(<<>>)))
    \/ \E online \in BOOLEAN : set_online(online)
    \/ RunFlushTask
    \/ \E result \in OwnSendFlushResults : FlushResponse(result)

SpecOwnSend == InitOwnSend /\ [][NextOwnSend]_vars

\* ------------------------------------------- pushes next to a pulled store
\* Realtime events of every kind of payload, on a store that a pull and a
\* send have filled.
PushEventTypes == {"message.new", "message.edit"}

\* A full payload for the pulled message s1, a payload with nothing but an
\* id, and the payloads that are not a non-empty dict.
PushPayloads ==
    { PyDict([id |-> "s1", conversationId |-> "c1", content |-> "push", createdAt |-> 1]),
      PyDict([id |-> "s2"]),
      PyDict(EmptyDict), PyNone, PyList(<<"x">>) }

PushSyncResults ==
    { Ok(PyDict([events |-> <<SyncEvent(1, "message.new",
                                        PyDict([id |-> "s1", content |-> "srv"]), "c1", 2)>>,
                 cursor |-> 1, hasMore |-> FALSE])) }

InitPush ==
    /\ InitCommon
    /\ outbox_retry_limit = MaxRetryLimit
    /\ sync_on_connect = FALSE

NextPush ==
    \/ \E t \in PushEventTypes, payload \in PushPayloads : handle_realtime_event(t, payload)
    \/ DispatchWrite(Req("POST", MessagesC1, BodyHi))
    \/ sync
    \/ \E result \in PushSyncResults : SyncResponse(result)
    \/ \E online \in BOOLEAN : set_online(online)

SpecPush == InitPush /\ [][NextPush]_vars

\* ----------------------------------------------- pulls that are cancelled
\* The pulls of SpecPull, with an owner that may cancel the task of a pass
\* while it awaits a page.
NextPullCancel ==
    \/ NextPull
    \/ SyncCancel

SpecPullCancel == InitPull /\ [][NextPullCancel]_vars

\* ------------------------------------------- every way out of a flush pass
\* The outbox with a storage that may raise inside a pass, next to the
\* answers of the network and the cancellation of the timer by destroy().
\* The answers to a send: ok with the server's message, a transient and a
\* permanent failure.
FlushExitResults ==
    OwnSendFlushResults
      \cup {Fail(PyDict([code |-> <<"HTTP", "ERROR">>, message |-> "Request failed"]))}

InitFlushExit ==
    /\ InitCommon
    /\ outbox_retry_limit = MaxRetryLimit
    /\ sync_on_connect = FALSE

NextFlushExit ==
    \/ DispatchWrite(Req("POST", MessagesC1, BodyHi))
    \/ RunFlushTask
    \/ FlushTick
    \/ flush
    \/ \E result \in FlushExitResults : FlushResponse(result)
    \/ FlushException
    \/ \E result \in FlushExitResults, call \in StorageCalls, handled \in BOOLEAN :
           FlushStorageRaise(result, call, handled)
    \/ FlushHandlerRaise
    \/ \E origin \in {"call", "timer"} \cup FlushTasks : FlushDequeueRaise(origin)
    \/ \E online \in BOOLEAN : set_online(online)
    \/ InitCall
    \/ Destroy
    \/ FlushCancelled

\* The event loop runs every task it has scheduled, the cancelled timer
\* task among them.
SpecFlushExit ==
    /\ InitFlushExit
    /\ [][NextFlushExit]_vars
    /\ WF_vars(FlushCancelled)

\* ------------------------------------- a send confirmed next to its pull
\* A send to c1 whose answer names the server message s1, and a pull whose
\* page brings s1 and an edit of s1: the pull may run before the send, while
\* its request is out, or after its answer.
RaceFlushResults ==
    { Ok(PyDict([message |-> PyDict([id |-> "s1", content |-> "hi"])])),
      Fail(PyDict([code |-> <<"TIMEOUT">>, message |-> "unavailable"])) }

RaceSyncResults ==
    { Ok(PyDict([events |-> <<SyncEvent(1, "message.new",
                                        PyDict([id |-> "s1", content |-> "hi"]), "c1", 1),
                              SyncEvent(2, "message.edit",
                                        PyDict([id |-> "s1", content |-> "edited"]), "c1", 2)>>,
                 cursor |-> 2, hasMore |-> FALSE])),
      Fail(PyNone) }

InitRace ==
    /\ InitCommon
    /\ outbox_retry_limit = MaxRetryLimit
    /\ sync_on_connect \in BOOLEAN

NextRace ==
    \/ DispatchWrite(Req("POST", MessagesC1, BodyHi))
    \/ RunFlushTask
    \/ \E result \in RaceFlushResults : FlushResponse(result)
    \/ sync
    \/ RunSyncTask
    \/ \E result \in RaceSyncResults : SyncResponse(result)
    \/ \E online \in BOOLEAN : set_online(online)

SpecRace == InitRace /\ [][NextRace]_vars

\* ------------------------------------------------ pulls that are answered
\* Pulls with a network that answers every page request, by a response or
\* by an exception; the server ends a pass within MaxPages pages (the guard
\* of SyncResponse).  The pages: one new message, two new messages, and a
\* new message followed by an event the reducer raises on.
LivePages ==
    { <<SyncEvent(1, "message.new", PyDict([id |-> "s1", content |-> "srv"]), "c1", 1)>>,
      <<SyncEvent(1, "message.new", PyDict([id |-> "s1", content |-> "srv"]), "c1", 1),
        SyncEvent(2, "message.new", PyDict([id |-> "s2", content |-> "srv"]), "c1", 2)>>,
      <<SyncEvent(1, "message.new", PyDict([id |-> "s1", content |-> "srv"]), "c1", 1),
        SyncEvent(2, "message.new", PyList(<<"x">>), "c1", 2)>> }

LiveSyncResults ==
    { Ok(PyDict([events |-> p, cursor |-> c, hasMore |-> h])) :
          p \in LivePages, c \in 1..MaxCursor, h \in BOOLEAN }
      \cup {Fail(PyNone)}

SyncAnswers ==
    \/ \E result \in LiveSyncResults : SyncResponse(result)
    \/ SyncException

NextPullLive ==
    \/ sync
    \/ RunSyncTask
    \/ SyncAnswers
    \/ \E online \in BOOLEAN : set_online(online)
    \/ RunFlushTask

SpecPullLive ==
    /\ InitPull
    /\ [][NextPullLive]_vars
    /\ WF_vars(SyncAnswers)

\* ------------------------------------------------------ the whole manager
\* Every call the application, the event loop and the network can make on
\* the manager.
Next ==
    \/ \E req \in WriteRequests : DispatchWrite(req)
    \/ \E req \in ReadRequests : DispatchRead(req)
    \/ \E result \in ReadResults : ReadResponse(result)
    \/ ReadException
    \/ flush
    \/ RunFlushTask
    \/ FlushTick
    \/ \E result \in FlushResults : FlushResponse(result)
    \/ FlushException
    \/ sync
    \/ RunSyncTask
    \/ \E result \in SyncResults : SyncResponse(result)
    \/ SyncException
    \/ \E online \in BOOLEAN : set_online(online)
    \/ InitCall
    \/ Destroy
    \/ FlushCancelled
    \/ \E t \in RealtimeEventTypes, payload \in RealtimePayloads :
           handle_realtime_event(t, payload)
    \/ \E event \in EmitterEvents, callback \in Callbacks : on(event, callback)
    \/ \E event \in EmitterEvents, callback \in Callbacks : off(event, callback)
    \/ remove_all_listeners

Spec == Init /\ [][Next]_vars

\* ------------------------------------------------------- claims: the outbox
OpIds(ob) == {ob[i].id : i \in 1..Len(ob)}

\* The stored messages that carry the given client id.
MessagesOf(ms, client_id) == {i \in 1..Len(ms) : ms[i].client_id = client_id}

\* The step is a write dispatch: it minted a client id.
IsWriteDispatch == uuid_next' = uuid_next + 1

\* The operation the write dispatch of this step enqueued.
Enqueued == outbox'[Len(outbox')]

\* The step acknowledged the operation: it was in the outbox and is gone.
Acked(op) == op.id \in OpIds(outbox) /\ op.id \notin OpIds(outbox')

\* A send that carries a message (a dict body).
IsMessageSend(op) == op.type = "message.send" /\ IsDict(op.body)

\* C1: sending a message stores at once a pending message with the client id;
\* once the network has answered ok to its operation, exactly one stored
\* message carries that client id, it is confirmed and has the id the server
\* assigned, and the placeholder local-<client id> is gone.
C1_SendThenConfirmed ==
    [][ /\ (IsWriteDispatch /\ IsMessageSend(Enqueued)) =>
              /\ HasId(messages', LocalId(Enqueued.id))
              /\ get_message(messages', LocalId(Enqueued.id)).status = "pending"
              /\ get_message(messages', LocalId(Enqueued.id)).client_id = Enqueued.id
        /\ \A i \in 1..Len(outbox) :
              (IsMessageSend(outbox[i]) /\ Acked(outbox[i])) =>
                 LET mine == MessagesOf(messages', outbox[i].id)
                 IN  /\ Cardinality(mine) = 1
                     /\ \A j \in mine : /\ messages'[j].status = "confirmed"
                                        /\ messages'[j].id \in ServerIds
                     /\ ~HasId(messages', LocalId(outbox[i].id))
      ]_vars

\* C2: an operation that has been attempted and whose retries have reached
\* max_retries is failed, no failed operation is in flight or returned by
\* dequeue_ready, and the network requests issued for one operation never
\* exceed its max_retries.
C2_RetryCeiling ==
    /\ \A i \in 1..Len(outbox) :
          LET op == outbox[i]
          IN  /\ (op.retries >= op.max_retries /\ attempts[op.id] > 0)
                    => op.status = "failed"
              /\ op.status = "failed" =>
                    /\ op.id # flush_run.op
                    /\ \A k \in 1..Len(dequeue_ready(outbox, FlushBatch)) :
                          dequeue_ready(outbox, FlushBatch)[k].id # op.id
    /\ \A c \in ClientIds : attempts[c] <= outbox_retry_limit

\* The answer of this step is a failure response to a flush attempt whose
\* code is neither a timeout nor a network class.
PermanentAnswer ==
    /\ received'.kind = "response"
    /\ received'.to = "flush"
    /\ ~Get(received'.result, "ok", FALSE)
    /\ LET code == Get(OrEmpty(Get(received'.result, "error", PyNone)), "code", <<>>)
       IN  \A i \in 1..Len(code) : code[i] \notin {"TIMEOUT", "NETWORK"}

\* C3: a permanent failure response sets retries to max_retries and status
\* to failed at once, emits outbox.failed with retries_left 0 (and
\* message.failed for a send); a failed operation stays failed and is never
\* attempted again, whatever the connectivity does.
C3_PermanentFailure ==
    [][ \A i \in 1..Len(outbox) :
          LET op == outbox[i]
          IN  /\ (PermanentAnswer /\ flush_run.op = op.id) =>
                    /\ HasId(outbox', op.id)
                    /\ get_message(outbox', op.id).retries = op.max_retries
                    /\ get_message(outbox', op.id).status = "failed"
                    /\ \E k \in 1..Len(emitted') :
                          emitted'[k] = Ev("outbox.failed", op.id, 0)
                    /\ op.type = "message.send" =>
                          \E k \in 1..Len(emitted') :
                              emitted'[k] = Ev("message.failed", op.id, 0)
              /\ op.status = "failed" =>
                    /\ HasId(outbox', op.id)
                    /\ get_message(outbox', op.id).status = "failed"
                    /\ attempts'[op.id] = attempts[op.id]
      ]_vars

\* An operation is failed after a single attempt although it could be
\* retried, and the manager has since gone offline and online again.
C3_Witness ==
    \E i \in 1..Len(outbox) :
        /\ outbox[i].max_retries = MaxRetryLimit
        /\ outbox[i].status = "failed"
        /\ outbox[i].error = "Request failed"
        /\ attempts[outbox[i].id] = 1
        /\ emitted = <<Ev("network.online", None, 0)>>

\* The step starts the flush() call that set_online(True) scheduled.
RunsOnlineFlush ==
    /\ ready # <<>>
    /\ Head(ready) = "flush.online"
    /\ ready' = Tail(ready)

\* The step is set_online(True) on a manager that was offline.
GoesOnline == ~is_online /\ is_online'

\* The first part of C7: what a send dispatched offline does.
OfflineSendQueued ==
    (IsWriteDispatch /\ ~is_online /\ IsMessageSend(Enqueued)) =>
        /\ Len(messages') = Len(messages) + 1
        /\ messages'[Len(messages')].status = "pending"
        /\ messages'[Len(messages')].client_id = Enqueued.id
        /\ Len(outbox') = Len(outbox) + 1
        /\ Enqueued.type = "message.send"
        /\ Enqueued.status = "pending"
        /\ Enqueued.idempotency_key = IdempotencyKey(ClientId(uuid_next))
        /\ \A i \in 1..Len(outbox) :
              outbox[i].idempotency_key # Enqueued.idempotency_key
        /\ sent' = <<>>
        /\ ready' = ready

\* C7 as stated: a send dispatched offline adds one pending message and one
\* pending message.send operation with a fresh idempotency key and sends
\* nothing; set_online(True) schedules a flush at once and that flush
\* starts a pass over the ready operations that no pass holds yet.
C7_OnlineFlushAttempts ==
    [][ /\ OfflineSendQueued
        /\ GoesOnline => ready' = ready \o <<"flush.online">>
        /\ RunsOnlineFlush =>
              \A i \in 1..Len(outbox) :
                  (IsReady(outbox[i]) /\ outbox[i].id \notin Range(flush_run.ops)) =>
                      /\ flush_run'.origin = "flush.online"
                      /\ outbox[i].id \in Range(flush_run'.ops)
      ]_vars

\* C7, amended: the flush that set_online(True) schedules starts a pass over
\* the ready operations (at most FlushBatch, oldest first) when, as it
\* starts, no pass is in progress and the manager is still online; otherwise
\* it does nothing and the operation waits for a later flush.
C7_OnlineFlushUnlessBusy ==
    [][ /\ OfflineSendQueued
        /\ GoesOnline => ready' = ready \o <<"flush.online">>
        /\ RunsOnlineFlush =>
              IF flushing \/ ~is_online
              THEN UNCHANGED <<flush_run, flushing, outbox, attempts>> /\ sent' = <<>>
              ELSE LET ops == dequeue_ready(outbox, FlushBatch)
                   IN  /\ flush_run'.ops = [i \in 1..Len(ops) |-> ops[i].id]
                       /\ ops # <<>> =>
                             /\ flush_run'.origin = "flush.online"
                             /\ flush_run'.op = ops[1].id
                             /\ sent' = <<FlushRequest(ops[1])>>
                             /\ attempts'[ops[1].id] = attempts[ops[1].id] + 1
      ]_vars

\* Without a timer, a send queued offline is in flight in the pass that
\* set_online(True) scheduled.
C7_Witness ==
    /\ ~flush_task
    /\ inits = 0
    /\ flush_run.origin = "flush.online"
    /\ uuid_next = 2
    /\ HasId(outbox, flush_run.op)
    /\ IsMessageSend(get_message(outbox, flush_run.op))
    /\ attempts[flush_run.op] = 1
    /\ sent # <<>>
    /\ HasId(messages, LocalId(flush_run.op))

\* C10: the dispatch of a classified write enqueues exactly one operation,
\* pending with retries 0, returns ok and pending with the fresh client id
\* without any network request, online or offline; no later step raises to
\* a caller or returns the offline-degrade result.
C10_WriteReturnsPending ==
    [][ /\ IsWriteDispatch =>
              /\ Len(outbox') = Len(outbox) + 1
              /\ \A i \in 1..Len(outbox) : outbox'[i] = outbox[i]
              /\ Enqueued.id = ClientId(uuid_next)
              /\ Enqueued.type \in {"message.send", "message.edit",
                                    "message.delete", "conversation.read"}
              /\ Enqueued.status = "pending"
              /\ Enqueued.retries = 0
              /\ returned'.kind = "value"
              /\ returned'.ok
              /\ returned'.pending
              /\ returned'.client_id = Enqueued.id
              /\ sent' = <<>>
              /\ received' = NoAnswer
              /\ UNCHANGED <<flush_run, flushing>>
        /\ ~IsWriteDispatch => returned' = NoReturn
      ]_vars

\* An offline write has returned its pending result; nothing was sent.
C10_Witness ==
    /\ ~is_online
    /\ returned # NoReturn
    /\ returned.pending
    /\ returned.client_id = ClientId(2)
    /\ Len(outbox) = 2
    /\ outbox[2].type = "message.edit"
    /\ sent = <<>>

\* ------------------------------------------------------- claims: the queue
\* The operations of ob that are pending with retries below max_retries.
ReadyIn(ob) == {i \in 1..Len(ob) : ob[i].status = "pending" /\ ob[i].retries < ob[i].max_retries}

\* i comes before j in creation order (enqueue order among equal times).
Before(ob, i, j) ==
    \/ ob[i].created_at < ob[j].created_at
    \/ ob[i].created_at = ob[j].created_at /\ i < j

\* ops is what dequeue_ready(limit) has to return for the outbox ob.
IsReadyPrefix(ops, ob, limit) ==
    /\ Len(ops) = Min2(limit, Cardinality(ReadyIn(ob)))
    /\ \A k \in 1..Len(ops) :
          \E i \in ReadyIn(ob) :
              /\ ops[k] = ob[i]
              /\ Cardinality({j \in ReadyIn(ob) : Before(ob, j, i)}) = k - 1

\* C4: dequeue_ready(limit) returns exactly the pending operations with
\* retries < max_retries, oldest first (enqueue order), cut to the first
\* limit; a flush pass takes dequeue_ready(10) and attempts what it
\* returned one after the other in that order.
C4_DequeueOrder ==
    [][ /\ returned'.kind = "dequeue_ready" =>
              IsReadyPrefix(returned'.ops, outbox', returned'.limit)
        /\ (flush_run.origin = "none" /\ flush_run'.origin # "none") =>
              /\ \A k \in 1..Len(flush_run'.ops) : HasId(outbox, flush_run'.ops[k])
              /\ IsReadyPrefix([k \in 1..Len(flush_run'.ops) |->
                                    get_message(outbox, flush_run'.ops[k])],
                               outbox, FlushBatch)
              /\ flush_run'.op = flush_run'.ops[1]
              /\ sent' = <<FlushRequest(get_message(outbox, flush_run'.ops[1]))>>
        /\ flush_run.origin # "none" =>
              LET k == CHOOSE i \in 1..Len(flush_run.ops) : flush_run.ops[i] = flush_run.op
              IN  received'.kind # "none" =>
                      IF k < Len(flush_run.ops)
                      THEN /\ flush_run'.ops = flush_run.ops
                           /\ flush_run'.op = flush_run.ops[k + 1]
                           /\ Len(sent') = 1
                           /\ sent'[1].op_id = flush_run.ops[k + 1]
                      ELSE flush_run' = NoFlushRun /\ sent' = <<>>
      ]_vars

\* Three ready operations enqueued out of creation order, the two oldest
\* returned for limit 2.
C4_Witness ==
    /\ Len(outbox) = 3
    /\ ReadyIn(outbox) = {1, 2, 3}
    /\ outbox[1].created_at > outbox[2].created_at
    /\ outbox[2].created_at = outbox[3].created_at
    /\ returned.kind = "dequeue_ready"
    /\ returned.limit = 2
    /\ returned.ops = <<outbox[2], outbox[3]>>

\* ---------------------------------------------------- claims: the reducers
\* The store after the event has been applied to it once more.
Again(store, event) == _apply_sync_event(store.ms, store.cs, event)

\* C9: every sync reducer is idempotent: on any store, applying an event
\* twice in a row leaves the messages and conversations that applying it
\* once leaves.
C9_ReducersIdempotent ==
    \A event \in SyncEvents :
        LET once == _apply_sync_event(messages, conversations, event)
        IN  Again(once, event) = once

\* ------------------------------------------------- claims: the sync engine
\* C5: the persisted global_sync cursor only moves forward: no step of a
\* sync pass stores a cursor lower than the stored one (so the cursor a
\* second successful sync() leaves is at least the one the first left).
C5_CursorForward == [][cursor' >= cursor]_vars

\* The step applies a page: an ok answer with data to the request of sync().
AppliesPage ==
    /\ received'.kind = "response"
    /\ received'.to = "sync"
    /\ Get(received'.result, "ok", FALSE)
    /\ Truthy(Get(received'.result, "data", PyNone))

\* Positions of the message.new events of a page.
NewIn(events) == {k \in 1..Len(events) : events[k].type = "message.new"}

\* Event k of the page is a message.new that no later event of the page deletes.
Survives(events, k) ==
    /\ k \in NewIn(events)
    /\ ~\E j \in (k + 1)..Len(events) :
           /\ events[j].type = "message.delete"
           /\ events[j].data.d.id = events[k].data.d.id

Completions(ev) == {k \in 1..Len(ev) : ev[k].event = "sync.complete"}

\* C8: a pass over several pages stores every message.new event of every
\* page as a confirmed message, persists with each page the cursor returned
\* with it, and after the last page (hasMore false) is idle and has emitted
\* sync.complete once, with new_messages the number of message.new events
\* of all the pages of the pass.
C8_SyncPass ==
    [][ /\ sync_run.total_new = sync_run.news
        /\ ~AppliesPage => Completions(emitted') = {}
        /\ AppliesPage =>
              LET data == received'.result.data.d
                  events == Get(data, "events", <<>>)
              IN  /\ \A k \in 1..Len(events) : Survives(events, k) =>
                        /\ HasId(messages', events[k].data.d.id)
                        /\ get_message(messages', events[k].data.d.id).status = "confirmed"
                        /\ get_message(messages', events[k].data.d.id).sync_seq = events[k].seq
                  /\ "cursor" \in DOMAIN data => cursor' = data.cursor
                  /\ IF Get(data, "hasMore", FALSE)
                     THEN /\ sync_state' = "syncing"
                          /\ Completions(emitted') = {}
                          /\ sync_run'.news = sync_run.news + Cardinality(NewIn(events))
                     ELSE /\ sync_state' = "idle"
                          /\ sync_run' = NoSyncRun
                          /\ Cardinality(Completions(emitted')) = 1
                          /\ \A k \in Completions(emitted') :
                                emitted'[k].n = sync_run.news + Cardinality(NewIn(events))
      ]_vars

\* A pass of two pages with one message.new each has ended: two confirmed
\* messages, the cursor of the second page, sync.complete with 2.
C8_Witness ==
    /\ sync_state = "idle"
    /\ received.kind = "response"
    /\ received.to = "sync"
    /\ Get(received.result, "ok", FALSE)
    /\ Truthy(Get(received.result, "data", PyNone))
    /\ Cardinality(NewIn(received.result.data.d.events)) = 1
    /\ "cursor" \in DOMAIN received.result.data.d
    /\ cursor = received.result.data.d.cursor
    /\ \E k \in 1..Len(emitted) : emitted[k].event = "sync.complete" /\ emitted[k].n = 2
    /\ Len(messages) = 2
    /\ \A i \in 1..Len(messages) : messages[i].status = "confirmed"

\* ----------------------------------------------------------- claims: reads
\* C6: when the network call of a GET dispatch that the cache did not serve
\* raises, the dispatch returns {ok: true, data: []} if the manager is
\* offline and raises to its caller if it is online; nothing is stored.
C6_OfflineReadDegrades ==
    [][ (received'.kind = "raise" /\ received'.to = "read" /\ read_run.method = "GET") =>
            /\ ~is_online => returned' = [kind |-> "value", ok |-> TRUE, data |-> PyList(<<>>)]
            /\ is_online => returned' = [kind |-> "raise"]
            /\ UNCHANGED storage_vars
      ]_vars

\* An offline GET that missed the cache got the empty result after the
\* network raised.
C6_Witness ==
    /\ ~is_online
    /\ received = Raised("read")
    /\ returned = [kind |-> "value", ok |-> TRUE, data |-> PyList(<<>>)]
    /\ conversations = <<>>
    /\ read_run = NoReadRun

\* ------------------------------------------------- claims: single flight
\* The step is a call of flush() by a coroutine that ensure_future scheduled.
RunsFlushTask == ready # <<>> /\ Head(ready) \in FlushTasks /\ ready' = Tail(ready)

\* The step is an answer of the network (a response or an exception).
IsAnswer == received'.kind # "none"

\* The step cancelled the timer task (init() or destroy()), or delivered
\* the cancellation to the pass of the timer.
StopsTimer == inits' # inits \/ flush_task' # flush_task \/ cancelled' # cancelled

\* C11: at most one flush pass runs at a time.  _flushing is set exactly
\* while a pass is suspended at the network; while it is set, a step that is
\* neither the answer to the pass's request nor a cancellation of the timer
\* (so every flush() call: tick, kick, online transition, direct call) sends
\* nothing, keeps the pass and the attempts as they are and takes nothing out
\* of the outbox, and the kick that ran is gone from the loop, not requeued;
\* a request for an operation is issued only when none is in flight, or in
\* the step that received the answer to the one in flight.
C11_SingleFlight ==
    [][ /\ flushing <=> flush_run.origin # "none"
        /\ (flushing /\ ~IsAnswer /\ ~StopsTimer) =>
              /\ sent' = <<>>
              /\ flushing'
              /\ flush_run' = flush_run
              /\ attempts' = attempts
              /\ \A i \in 1..Len(outbox) : outbox'[i] = outbox[i]
        /\ (flushing /\ RunsFlushTask) => ready' = Tail(ready) /\ UNCHANGED outbox
        /\ sent' # <<>> =>
              /\ Len(sent') = 1
              /\ ~flushing \/ (IsAnswer /\ received'.to = "flush")
              /\ sent'[1].op_id = flush_run'.op
      ]_vars

\* A pass started by the first write's kick is still awaiting the network
\* for the first operation; the second write's kick has run meanwhile and
\* the second operation was neither dequeued nor sent.
C11_Witness ==
    /\ is_online
    /\ flushing
    /\ flush_run.origin = "flush.write"
    /\ flush_run.ops = <<ClientId(1)>>
    /\ Len(outbox) = 2
    /\ ready = <<>>
    /\ attempts[ClientId(1)] = 1
    /\ attempts[ClientId(2)] = 0

\* C12: sync() is single-flight.  While sync_state is syncing (a pass is
\* suspended at the network), a step that is not the answer to that pass's
\* request (so every sync() call, direct or scheduled) issues no request,
\* leaves the cursor, the state and the pass alone and emits nothing (only a
\* connectivity change emits, its own event); and sync_state only moves
\* idle -> syncing, error -> syncing, syncing -> idle and syncing -> error.
C12_SyncSingleFlight ==
    [][ /\ sync_state = "syncing" <=> sync_run.origin # "none"
        /\ (sync_state = "syncing" /\ ~IsAnswer) =>
              /\ sent' = <<>>
              /\ cursor' = cursor
              /\ sync_state' = "syncing"
              /\ sync_run' = sync_run
              /\ is_online' = is_online => emitted' = <<>>
              /\ \A k \in 1..Len(emitted') :
                    emitted'[k].event \in {"network.online", "network.offline"}
        /\ sync_state' # sync_state =>
              \/ sync_state \in {"idle", "error"} /\ sync_state' = "syncing"
              \/ sync_state = "syncing" /\ sync_state' \in {"idle", "error"}
        /\ (sync_state = "syncing" /\ sync_state' # "syncing") =>
              IsAnswer /\ received'.to = "sync"
      ]_vars

\* A pass the application started has applied one page and awaits the
\* next; meanwhile the manager went offline and online again and the sync()
\* that scheduled has run: it left no event and no request behind.
C12_Witness ==
    /\ sync_state = "syncing"
    /\ sync_run.origin = "call"
    /\ sync_run.pages = 1
    /\ sync_on_connect
    /\ is_online
    /\ ready = <<>>
    /\ emitted = <<>>
    /\ sent = <<>>
    /\ received = NoAnswer

\* ------------------------------------------------- claims: durability
\* The request fields of an operation: what a retry sends.
SameRequest(a, b) ==
    /\ a.type = b.type /\ a.method = b.method /\ a.path = b.path /\ a.body = b.body
    /\ a.idempotency_key = b.idempotency_key /\ a.max_retries = b.max_retries
    /\ a.created_at = b.created_at

\* C13: no outbox operation is dropped.  An operation leaves the outbox only
\* in the step that received an ok response to the request of that same
\* operation; in every other step (a failure or an exception of its request,
\* going offline, init(), destroy(), a pull, a realtime event, another
\* dispatch) it stays, with the same request and no fewer retries, and while
\* its retries are below max_retries dequeue_ready still selects it.
C13_NoOperationDropped ==
    [][ \A i \in 1..Len(outbox) :
          LET op == outbox[i]
          IN  /\ op.retries < op.max_retries => IsReady(op)
              /\ ~HasId(outbox', op.id) =>
                    /\ received'.kind = "response"
                    /\ received'.to = "flush"
                    /\ Get(received'.result, "ok", FALSE)
                    /\ flush_run.op = op.id
              /\ HasId(outbox', op.id) =>
                    /\ SameRequest(get_message(outbox', op.id), op)
                    /\ get_message(outbox', op.id).retries >= op.retries
                    /\ get_message(outbox', op.id).retries < op.max_retries =>
                          IsReady(get_message(outbox', op.id))
      ]_vars

\* After a transient failure of its request, a destroy(), a pull and a move
\* offline the first operation is still queued and ready, and the second
\* one, which failed for good, is still in the outbox.
C13_Witness ==
    /\ Len(outbox) = 2
    /\ outbox[1].retries = 1
    /\ IsReady(outbox[1])
    /\ outbox[2].status = "failed"
    /\ inits = 1
    /\ ~flush_task
    /\ ~is_online
    /\ cursor = 1
    /\ sync_state = "error"

\* ------------------------------------------------- claims: liveness
\* The operation is no longer waiting: acked (gone), or marked failed.
Resolved(c) == ~HasId(outbox, c) \/ get_message(outbox, c).status = "failed"

\* C14: with the flush timer running, the manager online for good,
\* max_retries at least 1 and a network that answers every request, every
\* operation in the outbox is eventually acked or marked failed: also an
\* operation enqueued while a pass is in progress, and the operation behind
\* the first 10 of a pass.  Stated for all operations at once: again and
\* again no operation is left waiting, so whenever an operation is enqueued
\* a later state has it resolved.
C14_EventuallyResolved == []<>(\A c \in ClientIds : Resolved(c))

\* The operation behind the first 10 of the backlog was sent once and
\* acked, after a pass that left the oldest operation failed.
C14_Witness ==
    /\ Len(outbox) >= 1
    /\ outbox[1].id = ClientId(1)
    /\ outbox[1].status = "failed"
    /\ attempts[ClientId(FlushBatch + 1)] = 1
    /\ ~HasId(outbox, ClientId(FlushBatch + 1))
    /\ flush_run = NoFlushRun

\* ------------------------------------------------- claims: sync failure
\* The answer to a page request is a failure response.
IsFailureResponse(answer) ==
    answer.kind = "response" /\ ~Get(answer.result, "ok", FALSE)

\* The reason sync.error carries: the error's message, "Sync failed" when
\* the response has none, str(exc) when the request raised.
FailureReason(answer) ==
    IF answer.kind = "raise" THEN ExcMessage
    ELSE Get(OrEmpty(Get(answer.result, "error", PyNone)), "message", "Sync failed")

\* C15: when a page request of sync() gets a failure response or raises,
\* sync_state becomes error, the only event is sync.error with the reason
\* (no sync.complete, no sync.progress), no further page is requested, the
\* store is left alone and the persisted cursor is not touched: it is the
\* cursor of the last page this pass applied, if it applied one.
C15_SyncFailure ==
    [][ (IsAnswer /\ received'.to = "sync"
            /\ (received'.kind = "raise" \/ IsFailureResponse(received'))) =>
            /\ sync_state = "syncing"
            /\ sync_state' = "error"
            /\ emitted' = <<SyncError(FailureReason(received'))>>
            /\ sent' = <<>>
            /\ sync_run' = NoSyncRun
            /\ cursor' = cursor
            /\ sync_run.pages >= 1 => cursor = sync_run.cursor
            /\ sync_run.pages = 0 => sync_run.cursor = (IF cursor = NoSeq THEN 0 ELSE cursor)
            /\ UNCHANGED <<messages, conversations, outbox>>
      ]_vars

\* The request for the second page failed: the pass ended in error and the
\* cursor is the one the first page brought, with that page's message kept.
C15_Witness ==
    /\ sync_state = "error"
    /\ received = Answer("sync", Fail(PyDict([message |-> "Request failed"])))
    /\ emitted = <<SyncError("Request failed")>>
    /\ cursor = 2
    /\ Len(messages) = 1
    /\ sync_run = NoSyncRun

\* ------------------------------------------------- claims: pending messages
\* C16: in every reachable state each stored message with status pending
\* has a client id, and exactly one operation of the outbox has that id.
C16_PendingHasOperation ==
    \A i \in 1..Len(messages) :
        messages[i].status = "pending" =>
            /\ messages[i].client_id # None
            /\ Cardinality({j \in 1..Len(outbox) : outbox[j].id = messages[i].client_id}) = 1

\* ------------------------------------------------- claims: the emitter
\* How many times the callback was called.
CallsOf(calls, cb) == Cardinality({i \in 1..Len(calls) : calls[i] = cb})

\* C17: every emit of a step, in whatever order it visits the callbacks
\* registered for its event, returns normally and has called each of them
\* exactly once (and no other callback), whether or not some of them raise;
\* and the operation that emitted has run to its end: set_online has
\* switched the state and scheduled its flush, sync has started its pass and
\* sent its request, a dispatch has queued its operation and returned its
\* result, flush has sent the request of the operation it announced.
C17_EmitDelivers ==
    [][ /\ \A k \in 1..Len(emitted') :
              \A order \in Orders(ListenersOf(listeners, emitted'[k].event)) :
                  /\ ~emit(order, <<>>).raised
                  /\ \A cb \in Callbacks :
                        CallsOf(emit(order, <<>>).calls, cb) =
                            IF <<emitted'[k].event, cb>> \in listeners THEN 1 ELSE 0
        /\ is_online' # is_online =>
              /\ emitted' = <<Ev(IF is_online' THEN "network.online" ELSE "network.offline",
                                 None, 0)>>
              /\ is_online' => ready' = ready \o OnlineTasks
        /\ (sync_state # "syncing" /\ sync_state' = "syncing") =>
              /\ emitted' = <<Ev("sync.start", None, 0)>>
              /\ sent' = <<SyncRequest(IF cursor = NoSeq THEN 0 ELSE cursor)>>
        /\ IsWriteDispatch =>
              /\ emitted' = <<Ev("message.local", LocalId(Enqueued.id), 0)>>
              /\ Len(outbox') = Len(outbox) + 1
              /\ returned'.kind = "value"
              /\ returned'.client_id = Enqueued.id
        /\ (\E k \in 1..Len(emitted') : emitted'[k].event = "outbox.sending") =>
              /\ emitted'[Len(emitted')] = Ev("outbox.sending", flush_run'.op, 0)
              /\ sent' = <<FlushRequest(get_message(outbox', flush_run'.op))>>
              /\ flushing'
      ]_vars

\* set_online(True) has emitted network.online with three callbacks
\* registered for it, two of which raise; the manager is online and the
\* flush is scheduled.
C17_Witness ==
    /\ listeners = {<<"network.online", cb>> : cb \in Callbacks}
    /\ emitted = <<Ev("network.online", None, 0)>>
    /\ is_online
    /\ ready = <<"flush.online">>
    /\ Len(outbox) = 1

\* ------------------------------------------------- claims: the classifier
\* The path holds the segments of run, one after the other, and at least
\* one more segment behind them (the "/" that ends the pattern).
HasRun(path, run) ==
    \E i \in 1..Len(path) :
        /\ i + Len(run) <= Len(path)
        /\ SubSeq(path, i, i + Len(run) - 1) = run

\* The path holds /api/im/conversations/<id>/read...
HasReadOf(path) ==
    \E i \in 1..Len(path) :
        /\ i + 4 <= Len(path)
        /\ SubSeq(path, i, i + 2) = <<"api", "im", "conversations">>
        /\ path[i + 3] # ""
        /\ path[i + 4] \in {"read", "readers"}

\* The table of the claim, read from the top.
FirstRule(method, path) ==
    IF method = "POST" /\ \E name \in {"messages", "direct", "groups"} :
                              HasRun(path, <<"api", "im", name>>)
    THEN "message.send"
    ELSE IF method = "PATCH" /\ HasRun(path, <<"api", "im", "messages">>)
    THEN "message.edit"
    ELSE IF method = "DELETE" /\ HasRun(path, <<"api", "im", "messages">>)
    THEN "message.delete"
    ELSE IF method = "POST" /\ HasReadOf(path)
    THEN "conversation.read"
    ELSE None

\* C18: for every method and path the classifier returns the op type of the
\* first rule of the table that matches and None when none does; a dispatch
\* enqueues an operation exactly when that type is not None, with that type,
\* whatever the body; a GET and an unmatched request go to the cache or the
\* network and enqueue nothing.
C18_Classifier ==
    [][ /\ \A req \in ClassifyRequests :
              _match_write_op(req.method, req.path) = FirstRule(req.method, req.path)
        /\ IsWriteDispatch =>
              /\ Enqueued.type = FirstRule(Enqueued.method, Enqueued.path)
              /\ Enqueued.type # None
              /\ Enqueued.method # "GET"
              /\ Len(outbox') = Len(outbox) + 1
        /\ (read_run' # read_run /\ read_run' # NoReadRun) =>
              /\ FirstRule(read_run'.method, read_run'.path) = None
              /\ UNCHANGED outbox
        /\ Len(outbox') > Len(outbox) => IsWriteDispatch
      ]_vars

\* A POST without a body whose path matches the send rule and the read rule
\* was queued as a send, and a GET of the messages path went to the network.
C18_Witness ==
    /\ Len(outbox) = 1
    /\ outbox[1].path = <<"api", "im", "conversations", "c1", "read", "api", "im", "messages", "c1">>
    /\ outbox[1].type = "message.send"
    /\ outbox[1].body = PyNone
    /\ read_run = [method |-> "GET", path |-> <<"api", "im", "messages", "c1">>]

\* The idempotency key an operation's request body carries in its metadata,
\* None when the body is no dict or has no metadata or no key there.
BodyKey(op) ==
    IF IsDict(op.body) /\ IsDict(Get(op.body.d, "metadata", PyNone))
    THEN Get(op.body.d.metadata.d, "_idempotencyKey", None)
    ELSE None

\* C19: every message.send or message.edit operation in the outbox carries
\* its own idempotency_key in the metadata of its request body, whatever body
\* the caller passed (absent, empty, or with metadata of its own), and no two
\* operations of the outbox share a key.
C19_KeyInBody ==
    /\ \A i \in 1..Len(outbox) :
           outbox[i].type \in {"message.send", "message.edit"} =>
               BodyKey(outbox[i]) = outbox[i].idempotency_key
    /\ \A i, j \in 1..Len(outbox) :
           i # j => outbox[i].idempotency_key # outbox[j].idempotency_key

\* The local store holds data for the list the path names.
HoldsData(path) ==
    \/ EndsWithApiIm(path, "conversations") /\ conversations # <<>>
    \/ /\ EndsWithMessagesOf(path)
       /\ \E i \in 1..Len(messages) : messages[i].conversation_id = path[Len(path)]
    \/ EndsWithApiIm(path, "contacts") /\ contacts # <<>>

\* The list is the stored data of the path, every stored item once.
IsStoredData(path, list) ==
    IF EndsWithApiIm(path, "conversations")
    THEN /\ Len(list) = Len(conversations)
         /\ \A i \in 1..Len(conversations) :
                \E k \in 1..Len(list) : list[k] = _conv_to_dict(conversations[i])
    ELSE IF EndsWithMessagesOf(path)
    THEN /\ Len(list) = Cardinality({i \in 1..Len(messages) :
                                        messages[i].conversation_id = path[Len(path)]})
         /\ \A i \in 1..Len(messages) :
                messages[i].conversation_id = path[Len(path)] =>
                    \E k \in 1..Len(list) : list[k] = _msg_to_dict(messages[i])
         /\ \A k \in 1..(Len(list) - 1) : list[k].createdAt <= list[k + 1].createdAt
    ELSE list = contacts

\* The store after the step holds every item of the list answered for the
\* path, and the other collections are as they were.
IsWritten(path, list) ==
    IF EndsWithApiIm(path, "conversations")
    THEN /\ \A k \in 1..Len(list) :
                \E i \in 1..Len(conversations') :
                    conversations'[i].id = Get(list[k], "id", "")
         /\ UNCHANGED <<messages, contacts>>
    ELSE IF EndsWithMessagesOf(path)
    THEN /\ \A k \in 1..Len(list) :
                \E i \in 1..Len(messages') :
                    /\ messages'[i].id = Get(list[k], "id", "")
                    /\ messages'[i].content = Get(list[k], "content", "")
                    /\ messages'[i].status = "confirmed"
         /\ UNCHANGED <<conversations, contacts>>
    ELSE IF EndsWithApiIm(path, "contacts")
    THEN contacts' = list /\ UNCHANGED <<messages, conversations>>
    ELSE UNCHANGED <<messages, conversations, contacts>>

\* The step is a dispatch that returned without waiting for the network.
IsCacheHit == returned'.kind = "value" /\ received'.kind = "none"

\* The step is a dispatch that went to the network.
IsReadRequest == read_run = NoReadRun /\ read_run' # NoReadRun

\* The step is the network's answer to a read.
IsReadAnswer == received'.kind = "response" /\ received'.to = "read"

\* C20: a GET of the conversations list, of a conversation's messages or of
\* the contacts list whose data the store holds is answered with that data,
\* with no network request and with storage, outbox and cursor unchanged;
\* a miss sends exactly one request, the answer is returned unchanged, and
\* an ok answer that is a non-empty list is written into the store.
C20_ReadCache ==
    [][ /\ IsCacheHit =>
              /\ sent' = <<>>
              /\ UNCHANGED storage_vars
              /\ \E req \in ReadRequests :
                    /\ req.method = "GET"
                    /\ HoldsData(req.path)
                    /\ returned'.ok
                    /\ IsList(returned'.data)
                    /\ IsStoredData(req.path, returned'.data.l)
        /\ IsReadRequest =>
              /\ Len(sent') = 1
              /\ sent'[1].method = read_run'.method
              /\ sent'[1].path = read_run'.path
              /\ read_run'.method = "GET" => ~HoldsData(read_run'.path)
              /\ UNCHANGED storage_vars
        /\ IsReadAnswer =>
              /\ returned' = Value(received'.result)
              /\ sent' = <<>>
              /\ UNCHANGED <<cursor, outbox>>
              /\ IF /\ read_run.method = "GET"
                    /\ received'.result.ok
                    /\ IsList(received'.result.data)
                 THEN IsWritten(read_run.path, received'.result.data.l)
                 ELSE UNCHANGED <<messages, conversations, contacts>>
      ]_vars

\* A GET of the messages of c1 was answered from the store, which holds the
\* one message an earlier miss wrote.
C20_Witness ==
    /\ Len(messages) = 1
    /\ messages[1].conversation_id = "c1"
    /\ returned = Value(Ok(PyList(<<_msg_to_dict(messages[1])>>)))
    /\ received = NoAnswer
    /\ sent = <<>>
    /\ read_run = NoReadRun

\* The answer of this step is a failure response to a flush attempt whose
\* code is of the timeout or network class.
TransientAnswer ==
    /\ received'.kind = "response"
    /\ received'.to = "flush"
    /\ ~Get(received'.result, "ok", FALSE)
    /\ LET code == Get(OrEmpty(Get(received'.result, "error", PyNone)), "code", <<>>)
       IN  \E i \in 1..Len(code) : code[i] \in {"TIMEOUT", "NETWORK"}

\* The network call of the flush attempt of this step raised.
RaisedAnswer == received'.kind = "raise" /\ received'.to = "flush"

\* How many times the step emitted the event for the operation.
EmittedFor(event, id) ==
    Cardinality({k \in 1..Len(emitted') :
                    emitted'[k].event = event /\ emitted'[k].id = id})

\* C21: every transient failure of an attempt (a timeout or network class
\* error response, or an exception of the network call) adds exactly one to
\* the stored retries of the operation and emits exactly one outbox.failed
\* for it.
C21_TransientFailure ==
    [][ \A i \in 1..Len(outbox) :
          ((TransientAnswer \/ RaisedAnswer) /\ flush_run.op = outbox[i].id) =>
              /\ HasId(outbox', outbox[i].id)
              /\ get_message(outbox', outbox[i].id).retries = outbox[i].retries + 1
              /\ EmittedFor("outbox.failed", outbox[i].id) = 1
      ]_vars

\* C22: every outbox.failed event carries retries_left equal to max_retries
\* minus the retries stored by the nack of that attempt, and never a
\* negative retries_left.
C22_RetriesLeft ==
    [][ \A k \in 1..Len(emitted') :
          emitted'[k].event = "outbox.failed" =>
              /\ HasId(outbox', emitted'[k].id)
              /\ emitted'[k].n = get_message(outbox', emitted'[k].id).max_retries
                                   - get_message(outbox', emitted'[k].id).retries
              /\ emitted'[k].n >= 0
      ]_vars

\* The step made the operation failed.
BecomesFailed(op) ==
    /\ op.status # "failed"
    /\ HasId(outbox', op.id)
    /\ get_message(outbox', op.id).status = "failed"

\* C23: for a send, message.failed is emitted once by the step that makes
\* the operation failed and by no other step: never while the operation
\* can still be attempted, never again afterwards.
C23_MessageFailedOnce ==
    [][ \A i \in 1..Len(outbox) :
          outbox[i].type = "message.send" =>
              EmittedFor("message.failed", outbox[i].id)
                  = IF BecomesFailed(outbox[i]) THEN 1 ELSE 0
      ]_vars

\* The step is the network's answer to the request of a sync pass.
IsSyncAnswer == received'.kind = "response" /\ received'.to = "sync"

\* The answer of the step is a page: ok, with data.
IsPage == IsSyncAnswer /\ Get(received'.result, "ok", FALSE)
              /\ Truthy(Get(received'.result, "data", PyNone))

\* The events of the page the step received, in the order of the page.
PageOfStep == Get(received'.result.data.d, "events", <<>>)

\* How many events at the head of the page apply: all those before the
\* first one the reducer raises on.
AppliedCount(events) ==
    IF \E k \in 1..Len(events) : ApplyRaises(events[k])
    THEN (CHOOSE k \in 1..Len(events) :
             /\ ApplyRaises(events[k])
             /\ \A j \in 1..(k - 1) : ~ApplyRaises(events[j])) - 1
    ELSE Len(events)

\* The store after the first n events of the page were applied one after
\* the other to the store of before the step.
AppliedPrefix(events, n) ==
    LET f[k \in 0..n] ==
            IF k = 0 THEN Store(messages, conversations)
            ELSE _apply_sync_event(f[k - 1].ms, f[k - 1].cs, events[k])
    IN  f[n]

\* C24: the cursor moves only by a page whose events were all applied, to
\* that page's cursor; when an event of a page cannot be applied the events
\* before it are applied, the cursor keeps its value and the pass ends in
\* error; a sync() that starts asks for the events since the stored cursor.
C24_CursorAfterPage ==
    [][ /\ cursor' # cursor =>
              /\ IsPage
              /\ AppliedCount(PageOfStep) = Len(PageOfStep)
              /\ cursor' = Get(received'.result.data.d, "cursor", NoSeq)
              /\ messages' = AppliedPrefix(PageOfStep, Len(PageOfStep)).ms
              /\ conversations' = AppliedPrefix(PageOfStep, Len(PageOfStep)).cs
        /\ (IsPage /\ AppliedCount(PageOfStep) < Len(PageOfStep)) =>
              /\ UNCHANGED cursor
              /\ sync_state' = "error"
              /\ sent' = <<>>
              /\ messages' = AppliedPrefix(PageOfStep, AppliedCount(PageOfStep)).ms
              /\ conversations' = AppliedPrefix(PageOfStep, AppliedCount(PageOfStep)).cs
        /\ (sync_state # "syncing" /\ sync_state' = "syncing") =>
              sent' = <<SyncRequest(IF cursor = NoSeq THEN 0 ELSE cursor)>>
      ]_vars

\* The second page of a pull could not be applied past its first event: the
\* pass ended in error with both messages stored and the cursor of the
\* first page.
C24_Witness ==
    /\ sync_state = "error"
    /\ emitted = <<SyncError(ApplyErrorMessage)>>
    /\ cursor = 1
    /\ Len(messages) = 2

\* The two operations address the same conversation.
SameConversation(a, b) ==
    /\ ConversationOfPath(a.path) # ""
    /\ ConversationOfPath(a.path) = ConversationOfPath(b.path)

\* C25: the operations of one conversation are delivered in the order of
\* their creation, over all flush passes: no operation is acknowledged
\* while an operation of the same conversation that was created before it
\* is still pending in the outbox.
C25_FifoPerConversation ==
    [][ \A i, j \in 1..Len(outbox) :
          ( /\ Acked(outbox[i])
            /\ SameConversation(outbox[i], outbox[j])
            /\ outbox[j].created_at < outbox[i].created_at )
          => ~( /\ HasId(outbox', outbox[j].id)
                /\ get_message(outbox', outbox[j].id).status = "pending" )
      ]_vars

\* The step issued a network request for an outbox operation.
SendsOperation == attempts' # attempts

\* A scheduled flush() that runs while the manager is offline does nothing.
OfflineFlushIsNoOp ==
    (RunsFlushTask /\ ~is_online) =>
        /\ sent' = <<>>
        /\ emitted' = <<>>
        /\ UNCHANGED <<storage_vars, flushing, flush_run, attempts, is_online>>

\* The step is an answer to the request of a flush pass that has
\* operations left.
AnswerWithinPass ==
    /\ IsAnswer
    /\ received'.to = "flush"
    /\ flush_run.op # flush_run.ops[Len(flush_run.ops)]

\* C26 as stated: whenever flush issues a request for an operation the
\* manager is online, also when set_online(False) was called during the
\* pass; a flush() called while offline sends nothing and changes nothing.
C26_NeverSendsOffline ==
    [][ /\ SendsOperation => is_online
        /\ OfflineFlushIsNoOp
      ]_vars

\* C26, amended: a flush pass starts only while the manager is online, and a
\* flush() called while offline sends nothing and changes nothing; a pass
\* that has started sends the operations it has left whatever set_online
\* did since.
C26_PassStartsOnline ==
    [][ /\ (SendsOperation /\ flush_run.origin = "none") => is_online
        /\ OfflineFlushIsNoOp
        /\ AnswerWithinPass =>
              /\ SendsOperation
              /\ Len(sent') = 1
              /\ sent'[1].op_id = flush_run'.op
              /\ flush_run'.ops = flush_run.ops
              /\ UNCHANGED is_online
      ]_vars

\* The manager went offline during a pass over two operations, and the
\* request for the second operation has been issued since.
C26_Witness ==
    /\ ~is_online
    /\ Len(flush_run.ops) = 2
    /\ flush_run.op = flush_run.ops[2]
    /\ Len(sent) = 1
    /\ sent[1].op_id = flush_run.op
    /\ received.kind # "none"

\* C27: the sync_seq of a stored conversation never decreases, whatever
\* events are applied and in whatever order, and a step that applies an
\* event whose seq is not above the stored sync_seq leaves the conversation
\* as it is.
C27_SyncSeqMonotonic ==
    [][ \A i \in 1..Len(conversations) :
          HasId(conversations', conversations[i].id) =>
              LET after == get_message(conversations', conversations[i].id)
              IN  /\ after.sync_seq >= conversations[i].sync_seq
                  /\ after.sync_seq = conversations[i].sync_seq =>
                        after = conversations[i]
      ]_vars

\* C28: the events of a page are applied one after the other, and in
\* ascending seq: the store after the step is the store after the events
\* that apply, taken in the order of the page, and none of them comes
\* before an event of the page with a lower seq.
C28_AscendingSeq ==
    [][ IsPage =>
          LET n == AppliedCount(PageOfStep)
          IN  /\ messages' = AppliedPrefix(PageOfStep, n).ms
              /\ conversations' = AppliedPrefix(PageOfStep, n).cs
              /\ \A k, l \in 1..n : k < l => PageOfStep[k].seq <= PageOfStep[l].seq
      ]_vars

\* The step emitted network.online or network.offline.
EmitsNetworkEvent ==
    \E k \in 1..Len(emitted') :
        emitted'[k].event \in {"network.online", "network.offline"}

\* The step starts the sync() call that set_online(True) scheduled.
RunsOnlineSync ==
    /\ ready # <<>>
    /\ Head(ready) = "sync.online"
    /\ ready' = Tail(ready)

\* C29: going from offline to online emits network.online and schedules a
\* flush() and, exactly when sync_on_connect is set, a sync() after it; the
\* scheduled calls run flush() and sync() with their guards; a step that
\* leaves is_online as it is (set_online with the value in effect among
\* them) schedules nothing and emits no network event.
C29_OnlineTransition ==
    [][ /\ GoesOnline =>
              /\ emitted' = <<Ev("network.online", None, 0)>>
              /\ ready' = ready \o <<"flush.online">>
                              \o IF sync_on_connect THEN <<"sync.online">> ELSE <<>>
              /\ sent' = <<>>
        /\ is_online' = is_online =>
              /\ ~EmitsNetworkEvent
              /\ ready' = ready \/ (ready # <<>> /\ ready' = Tail(ready))
        /\ (is_online /\ ~is_online') =>
              /\ emitted' = <<Ev("network.offline", None, 0)>>
              /\ ready' = ready
        /\ RunsOnlineSync =>
              IF sync_state = "syncing" \/ ~is_online
              THEN UNCHANGED <<sync_state, sync_run>> /\ sent' = <<>>
              ELSE /\ sync_state' = "syncing"
                   /\ sync_run'.origin = "sync.online"
                   /\ sent' = <<SyncRequest(IF cursor = NoSeq THEN 0 ELSE cursor)>>
        /\ "sync.online" \in Range(ready) => sync_on_connect
      ]_vars

\* The sync() that an offline-to-online transition scheduled is awaiting the
\* network, and the flush() scheduled with it has run.
C29_Witness ==
    /\ sync_on_connect
    /\ is_online
    /\ sync_state = "syncing"
    /\ sync_run.origin = "sync.online"
    /\ ready = <<>>
    /\ sent # <<>>

\* The step issued a request of the sync engine.
SendsSyncRequest ==
    \E k \in 1..Len(sent') : sent'[k].path = <<"api", "im", "sync">>

\* C30: a pass that ends in error schedules nothing and sends nothing, and
\* the engine stays in the error state, without a pass and without a
\* request, until sync() is invoked (by the application or by the task an
\* offline-to-online transition scheduled); that invocation is accepted
\* while online and asks for the events since the stored cursor.
C30_NoAutomaticRetry ==
    [][ /\ (sync_state = "syncing" /\ sync_state' = "error") =>
              /\ sent' = <<>>
              /\ ready' = ready
              /\ sync_run' = NoSyncRun
        /\ sync_state = "error" =>
              /\ sync_run = NoSyncRun
              /\ sync_state' \in {"error", "syncing"}
              /\ SendsSyncRequest => sync_state' = "syncing"
              /\ sync_state' = "syncing" =>
                    /\ sync_run'.origin \in {"call", "sync.online"}
                    /\ sync_run'.origin = "sync.online" => RunsOnlineSync
                    /\ is_online
                    /\ emitted' = <<Ev("sync.start", None, 0)>>
                    /\ sent' = <<SyncRequest(IF cursor = NoSeq THEN 0 ELSE cursor)>>
                    /\ UNCHANGED storage_vars
              /\ (RunsOnlineSync /\ is_online) => sync_state' = "syncing"
      ]_vars

\* A pass was started again after one that ended in error: a message of a
\* page that could not be applied to its end is stored, no page was ever
\* completed (the cursor was never set), and the request asks from 0.
C30_Witness ==
    /\ sync_state = "syncing"
    /\ cursor = NoSeq
    /\ Len(messages) = 1
    /\ sync_run.origin = "sync.online"
    /\ sent = <<SyncRequest(0)>>
    /\ emitted = <<Ev("sync.start", None, 0)>>

\* The stored message is the optimistic message of a send whose operation
\* is still in the outbox.
IsOwnPending(m) ==
    /\ m.status = "pending"
    /\ m.client_id # None
    /\ HasId(outbox, m.client_id)

\* How many stored messages of its conversation come after the i-th stored
\* message in the order of created_at (the later stored after the earlier
\* of the same created_at).
LaterThan(i) ==
    Cardinality({j \in 1..Len(messages) :
        /\ messages[j].conversation_id = messages[i].conversation_id
        /\ \/ messages[j].created_at > messages[i].created_at
           \/ messages[j].created_at = messages[i].created_at /\ j > i})

\* The read of the step returned a list that holds the message.
ReturnsMessage(m) ==
    /\ returned'.kind = "value"
    /\ IsList(returned'.data)
    /\ \E k \in 1..Len(returned'.data.l) : returned'.data.l[k] = _msg_to_dict(m)

\* C31 as stated: a GET of c1's history with a limit of 1 or more returns a
\* list that holds the caller's pending message, as long as its operation
\* has not been answered.
C31_ReadsOwnSend ==
    [][ \A limit \in 1..MaxLimit :
          DispatchReadLimit(MessagesC1, limit) =>
              \A i \in 1..Len(messages) :
                  (IsOwnPending(messages[i]) /\ messages[i].conversation_id = "c1")
                      => ReturnsMessage(messages[i])
      ]_vars

\* C31, amended: the GET is answered from the store, without a request, and
\* its list holds the caller's pending message exactly when fewer than
\* `limit` stored messages of c1 come after it by created_at.
C31_ReadsOwnSendWithinLimit ==
    [][ \A limit \in 1..MaxLimit :
          DispatchReadLimit(MessagesC1, limit) =>
              \A i \in 1..Len(messages) :
                  (IsOwnPending(messages[i]) /\ messages[i].conversation_id = "c1") =>
                      /\ sent' = <<>>
                      /\ returned'.kind = "value"
                      /\ ReturnsMessage(messages[i]) <=> LaterThan(i) < limit
      ]_vars

\* A read with limit 1 has returned the caller's pending message, the most
\* recent of the two messages of c1 in the store.
C31_Witness ==
    /\ Len(messages) = 2
    /\ \E i \in 1..2 :
          /\ IsOwnPending(messages[i])
          /\ returned = Value(Ok(PyList(<<_msg_to_dict(messages[i])>>)))
    /\ received = NoAnswer

\* The step is a destroy(): the flush timer is armed before it and gone
\* after it.
IsDestroy == flush_task /\ ~flush_task'

\* C32: destroy() releases every listener and stops the timer for good,
\* and it leaves a flush pass or a sync pass that awaits the network as it
\* is: no step ever drops an attempt whose answer is still to come.
C32_DestroyKeepsInFlight ==
    [][ /\ IsDestroy =>
              /\ listeners' = {}
              /\ flush_run' = flush_run
              /\ flushing' = flushing
              /\ sync_run' = sync_run
              /\ sync_state' = sync_state
              /\ cancelled' = cancelled
        /\ (~flush_task /\ ~flush_task') =>
              (flush_run'.origin = "timer" => flush_run.origin = "timer")
      ]_vars

\* The stored messages with the sequence number of the message of the given
\* id unset.
ClearSeq(ms, id) ==
    [i \in 1..Len(ms) |-> IF ms[i].id = id THEN [ms[i] EXCEPT !.sync_seq = NoSeq] ELSE ms[i]]

\* What the sync reducer leaves in the message store for a message.new
\* event that carries the payload as its data.
ReducedStore(payload, seq, conversation_id, at) ==
    ApplyMessageNew(messages, conversations,
                    SyncEvent(seq, "message.new", payload, conversation_id, at)).ms

\* C33 as stated: a message.new with a non-empty payload leaves the store as
\* the reducer leaves it for some message.new event with that data; any
\* other event leaves messages, conversations, cursor and outbox alone.
C33_RealtimeAsReducer ==
    [][ \A t \in PushEventTypes, payload \in PushPayloads :
          handle_realtime_event(t, payload) =>
              IF t = "message.new" /\ Truthy(payload)
              THEN /\ IsDict(payload)
                   /\ \E seq \in 0..MaxSeq, at \in 1..(now + 1), c \in {None, "c1"} :
                          messages' = ReducedStore(payload, seq, c, at)
                   /\ UNCHANGED <<conversations, cursor, outbox>>
              ELSE UNCHANGED <<messages, conversations, cursor, outbox>>
      ]_vars

\* C33, amended: a message.new with a non-empty dict payload upserts a
\* confirmed message of the payload's id; the store is the one the reducer
\* leaves for an event with that data, no conversation of its own and the
\* current time, but for the sequence number of the message, which is unset.
\* A non-empty list payload raises; it and every other event leave messages,
\* conversations, cursor and outbox alone.
C33_RealtimeUpsert ==
    [][ \A t \in PushEventTypes, payload \in PushPayloads :
          handle_realtime_event(t, payload) =>
              IF t = "message.new" /\ Truthy(payload) /\ IsDict(payload)
              THEN /\ \A seq \in 0..MaxSeq :
                          messages' = ClearSeq(ReducedStore(payload, seq, None, now),
                                               Get(payload.d, "id", ""))
                   /\ HasId(messages', Get(payload.d, "id", ""))
                   /\ get_message(messages', Get(payload.d, "id", "")).status = "confirmed"
                   /\ get_message(messages', Get(payload.d, "id", "")).sync_seq = NoSeq
                   /\ returned' = NoReturn
                   /\ UNCHANGED <<conversations, cursor, outbox>>
              ELSE /\ UNCHANGED <<messages, conversations, cursor, outbox>>
                   /\ (returned'.kind = "raise") <=> RealtimeRaises(t, payload)
      ]_vars

\* A push has replaced the pulled message s1: its content is the pushed one
\* and its sequence number is gone, while the cursor of the pull stays.
C33_Witness ==
    /\ cursor = 1
    /\ HasId(messages, "s1")
    /\ get_message(messages, "s1").content = "push"
    /\ get_message(messages, "s1").sync_seq = NoSeq
    /\ outbox # <<>>

\* The retry count of a queued operation is within its limit, and the
\* operation is failed exactly at the limit.
RetriesInBounds(op) ==
    /\ 0 <= op.retries
    /\ op.retries <= op.max_retries
    /\ op.status \in {"pending", "failed"}
    /\ op.status = "failed" <=> op.retries = op.max_retries

\* Over the step the retry count of the operation does not go down, and a
\* failed operation that is still queued is still failed.
RetriesGrow(op) ==
    HasId(outbox', op.id) =>
        /\ get_message(outbox', op.id).retries >= op.retries
        /\ get_message(outbox', op.id).max_retries = op.max_retries
        /\ op.status = "failed" => get_message(outbox', op.id).status = "failed"

\* C34: every queued operation with a limit of 1 or more has retries within
\* 0..max_retries, is failed exactly when retries = max_retries, never loses
\* retries and never goes from failed back to pending.
C34_RetriesBounded ==
    /\ [](\A i \in 1..Len(outbox) : outbox[i].max_retries >= 1 => RetriesInBounds(outbox[i]))
    /\ [][\A i \in 1..Len(outbox) : outbox[i].max_retries >= 1 => RetriesGrow(outbox[i])]_vars

\* With a limit of 3, one operation has failed for good after three
\* transient failures and another is pending after one.
C34_Witness ==
    /\ outbox_retry_limit = MaxAttempts
    /\ \E i, j \in 1..Len(outbox) :
          /\ outbox[i].status = "failed" /\ outbox[i].retries = MaxAttempts
          /\ attempts[outbox[i].id] = MaxAttempts
          /\ outbox[j].status = "pending" /\ outbox[j].retries = 1

\* The stored messages get_messages may return: those of the conversation,
\* created before `before` when one is given (0 stands for none).
Eligible(conversation_id, before) ==
    {i \in 1..Len(messages) :
        /\ messages[i].conversation_id = conversation_id
        /\ before # 0 => messages[i].created_at < before}

\* The list holds eligible messages only, in ascending order of created_at,
\* no more than `limit` of them, and none that is older than an eligible
\* message it leaves out.
IsMostRecent(r, conversation_id, limit, before) ==
    /\ Len(r) = Min2(limit, Cardinality(Eligible(conversation_id, before)))
    /\ \A k \in 1..Len(r) : \E i \in Eligible(conversation_id, before) : messages[i] = r[k]
    /\ \A k \in 1..(Len(r) - 1) : r[k].created_at <= r[k + 1].created_at
    /\ \A i \in Eligible(conversation_id, before) :
          (\A k \in 1..Len(r) : r[k] # messages[i]) =>
              \A k \in 1..Len(r) : messages[i].created_at <= r[k].created_at

\* The values of `before` tried: none, and the creation time of every
\* stored message.
BeforeValues == {0} \cup {messages[i].created_at : i \in 1..Len(messages)}

\* C35: for every limit from 0 on and every `before`, get_messages returns
\* the `limit` most recent eligible messages of the conversation, ascending
\* by created_at, and never more than `limit`.
C35_MostRecentLimit ==
    \A limit \in 0..MaxLimit, before \in BeforeValues :
        IsMostRecent(get_messages(messages, "c1", limit, before), "c1", limit, before)

\* C36: sync_state is "syncing" only while a pass runs; once the pass has
\* ended, by an answer, an exception or a cancellation, the state is idle or
\* error and a later sync() starts a pass.
C36_SyncingOnlyWhileRunning ==
    sync_state = "syncing" => sync_run.origin # "none"

\* A flush() called while no pass runs, online, with an operation ready,
\* starts a pass.
FlushStartsPass ==
    (flush /\ flush_run.origin = "none" /\ is_online /\ dequeue_ready(outbox, FlushBatch) # <<>>)
        => (flushing' /\ flush_run'.origin = "call" /\ sent' # <<>>)

\* C37: the single-flight flag is set exactly while a flush pass is inside
\* flush(): the end of the pass clears it; an exception out of the storage
\* clears it when it leaves flush(), and leaves it set while the handler of
\* line 535 lets the pass go on; a flush() that raises has cleared it; the
\* cancellation of the timer task by destroy() clears it as soon as the
\* event loop delivers it to the pass; and a flush() called when no pass is
\* left starts one.
C37_FlagOnlyWhileFlushing ==
    /\ [](flushing <=> flush_run.origin # "none")
    /\ [][FlushStartsPass]_vars
    /\ [][returned'.kind = "raise" => ~flushing']_vars
    /\ (flush_run.origin = "cancelled") ~> (~flushing)

\* destroy() has cancelled the timer's attempt at an operation, the storage
\* has raised out of a flush(), and a later pass, called by the application,
\* is sending that operation again.
C37_Witness ==
    /\ ~flush_task
    /\ flushing
    /\ flush_run.origin = "call"
    /\ faults > 0
    /\ cancelled[flush_run.op] = 1
    /\ attempts[flush_run.op] >= 2
    /\ get_message(outbox, flush_run.op).retries = 0

\* The step is the answer to the request of a flush pass.
IsFlushAnswer == received'.kind = "response" /\ received'.to = "flush"

\* C38: the confirmation of a send leaves a message that a sync event has
\* written as the pull left it: same content, same sequence number.
C38_ConfirmationKeepsSynced ==
    [][ IsFlushAnswer =>
          \A i \in 1..Len(messages) :
              messages[i].sync_seq # NoSeq =>
                  /\ HasId(messages', messages[i].id)
                  /\ get_message(messages', messages[i].id).content = messages[i].content
                  /\ get_message(messages', messages[i].id).sync_seq = messages[i].sync_seq
      ]_vars

\* The network event that names the state.
NetworkEvent(online) == Ev(IF online THEN "network.online" ELSE "network.offline", None, 0)

\* C39: the manager starts online; a network event is emitted exactly by a
\* step that changes is_online, it is the only event of the step and it
\* names the new value of is_online.  Each event thus names the opposite of
\* the one before it, and the first one is network.offline.
C39_NetworkEventsAlternate ==
    /\ is_online = TRUE
    /\ [][ /\ EmitsNetworkEvent <=> is_online' # is_online
           /\ EmitsNetworkEvent => emitted' = <<NetworkEvent(is_online')>>
       ]_vars

\* network.online has just been emitted, in a state reached by going
\* offline first: a send queued meanwhile is still waiting for its flush.
C39_Witness ==
    /\ emitted = <<NetworkEvent(TRUE)>>
    /\ is_online
    /\ \E i \in 1..Len(outbox) : attempts[outbox[i].id] = 0

\* How many events of the given name the step emitted.
EmittedCount(event) ==
    Cardinality({k \in 1..Len(emitted') : emitted'[k].event = event})

\* sync.start is emitted once by the step that enters the syncing state and
\* by no other; one of sync.complete and sync.error is emitted, once, by the
\* step that leaves it and by no other; a pass asks for no more than
\* MaxPages pages.
SyncPassEvents ==
    /\ EmittedCount("sync.start") =
           IF sync_state # "syncing" /\ sync_state' = "syncing" THEN 1 ELSE 0
    /\ EmittedCount("sync.complete") + EmittedCount("sync.error") =
           IF sync_state = "syncing" /\ sync_state' # "syncing" THEN 1 ELSE 0
    /\ sync_state' = "syncing" => sync_run'.origin # "none" /\ sync_run'.pages < MaxPages
    /\ EmittedCount("sync.complete") = 1 => sync_state' = "idle"
    /\ EmittedCount("sync.error") = 1 => sync_state' = "error"

\* C40: with every page request answered and hasMore false within MaxPages
\* pages, a pass that starts leaves the syncing state; sync.start opens a
\* pass and exactly one sync.complete or sync.error closes it before the
\* next sync.start.
C40_SyncPassTerminates ==
    /\ (sync_state = "syncing") ~> (sync_state # "syncing")
    /\ [][SyncPassEvents]_vars

\* A pass has completed after more than one page: it counted three new
\* messages, and a page holds two events at most.
C40_Witness ==
    /\ sync_state = "idle"
    /\ Len(emitted) = 2
    /\ emitted[2].event = "sync.complete"
    /\ emitted[2].n = MaxPageLen + 1

====
